---- MODULE Spec2Model ----
(***************************************************************************)
(* A model of Codeface's IssueAnalyzer developer-bug assignment engine     *)
(* (codeface/issueanalyzer/bugzilla_analyzer.py, getResult and the helpers *)
(* of common_utils.py it calls).                                           *)
(*                                                                         *)
(* Numbers.  The program is Python 2.  A number is modelled as a record    *)
(* [n, d, int]: the exact rational n/d (d > 0, lowest terms) and whether   *)
(* it is a Python int.  Counters read from the database are ints; the      *)
(* columns computed with SQL avg() (dbmanager.py:604-606) arrive as        *)
(* decimals and everything passed through float() is a float: both are     *)
(* modelled exactly, as rationals (binary rounding is not modelled).       *)
(* Python 2's "/" on two ints is floor division, otherwise true division.  *)
(***************************************************************************)
EXTENDS Integers, Sequences, FiniteSets, TLC

\* ---------------------------------------------------------------- bounds
NumDevs == 3
NumBugs == 2
MaxStat == 2
MaxTime == 3
MaxValues == 2
MaxOperand == 2
MaxData == 2
MaxLen == 3
MaxFaults == 3

\* ------------------------------------------------------ program constants
\* conf["issueAnalyzerBugOpenedDays"] / ["issueAnalyzerBugFixedDays"]
BugOpenedDays == 60
BugFixedDays == 90
\* assigneeRank = -255 and assigneeNumAssigned = -255 at the start of a bug
InitialAssigneeRank == -255
InitialAssigneeNumAssigned == -255
\* the project the pass runs for
projectId == 1

\* common_utils.py: the run modes
RUN_MODE_ANALYSIS == 0
RUN_MODE_TEST == 1

\* --------------------------------------------------------------- numbers
RECURSIVE GCD(_, _)
GCD(a, b) == IF b = 0 THEN a ELSE GCD(b, a % b)

Abs(x) == IF x < 0 THEN -x ELSE x

\* The rational n/d in lowest terms with a positive denominator (d # 0).
Rat(n, d) ==
    LET g == GCD(Abs(n), Abs(d))
        s == IF d < 0 THEN -1 ELSE 1
    IN  [n |-> s * (n \div g), d |-> s * (d \div g), int |-> FALSE]

PyInt(i) == [n |-> i, d |-> 1, int |-> TRUE]

\* float(x): the same value, no longer an int
Float(x) == [n |-> x.n, d |-> x.d, int |-> FALSE]

\* x + y, x - y, x * y: an int only when both operands are ints
Add(x, y) == [Rat(x.n * y.d + y.n * x.d, x.d * y.d) EXCEPT !.int = x.int /\ y.int]
Sub(x, y) == [Rat(x.n * y.d - y.n * x.d, x.d * y.d) EXCEPT !.int = x.int /\ y.int]
Mul(x, y) == [Rat(x.n * y.n, x.d * y.d) EXCEPT !.int = x.int /\ y.int]

\* x / y of Python 2 for y # 0: floor division of two ints, else true division
PyDiv(x, y) ==
    IF x.int /\ y.int THEN PyInt(x.n \div y.n)
    ELSE Rat(x.n * y.d, x.d * y.n)

Less(x, y) == x.n * y.d < y.n * x.d
Leq(x, y) == x.n * y.d <= y.n * x.d
Eq(x, y) == x.n * y.d = y.n * x.d
IsZero(x) == x.n = 0

\* Python's None where a number is expected (a NULL of the database)
Null == [n |-> 0, d |-> 0, int |-> FALSE]
IsNull(x) == x.d = 0

\* What "op1/op2" raises, "none" when it yields a value
DivException(op1, op2) ==
    IF IsNull(op1) \/ IsNull(op2) THEN "TypeError"
    ELSE IF IsZero(op2) THEN "ZeroDivisionError"
    ELSE "none"

\* Mutant: "except ZeroDivisionError:" instead of the bare "except:".
CaughtZeroDivisionOnly(exception) == exception = "ZeroDivisionError"

\* safeDiv's "except: pass": every exception is caught
Caught(exception) == TRUE

\* common_utils.safeDiv, as a call: result = defaultResult; try:
\* result = op1/op2; except: pass; return result
SafeDivOutcome(op1, op2, defaultResult) ==
    LET exception == DivException(op1, op2)
    IN  IF exception = "none"
        THEN [raised |-> FALSE, value |-> PyDiv(op1, op2)]
        ELSE IF Caught(exception)
        THEN [raised |-> FALSE, value |-> defaultResult]
        ELSE [raised |-> TRUE, value |-> Null]

\* common_utils.safeDiv: op1/op2, or defaultResult when the division raises
safeDiv(op1, op2, defaultResult) == SafeDivOutcome(op1, op2, defaultResult).value

\* ------------------------------------------------------------ data model
Devs == 1..NumDevs
Bugs == 1..NumBugs
\* Python's None, for "no assignee yet" (developers are numbered from 1)
None == 0

Zero == PyInt(0)
One == PyInt(1)

\* The fields getResult reads from and writes to a developer entry
devFields == {"reviews", "numAssigned", "numAttachment", "numComment",
              "sizeAttachment", "devAvgTime", "bugAvgETA"}

\* handleResult: the key of a developers entry.  The program concatenates
\* the four values into one string; the model keeps them as a tuple.
DevKey(developer, component, priority, isOpen) ==
    <<developer, component, priority, isOpen>>

\* One candidate edge of bugAssignments[bug]
Edge(dev, isOpen) ==
    [component |-> 1, priority |-> 1, developer |-> dev, isOpen |-> isOpen]

\* common_utils.safeGetDeveloper(devs, dev, keys): the list [r, flag], r
\* the dict of the fields keys of the entry (flag 1) or of zeros (flag 0)
SafeGetDeveloperCall(devs, dev, keys) ==
    IF dev \in DOMAIN devs
    THEN <<[f \in keys |-> devs[dev][f]], 1>>
    ELSE <<[f \in keys |-> Zero], 0>>

\* Mutant: the field is set in the entry as it is in the map, whatever the
\* fields asked for.
SafeSetDeveloperCallInPlace(devs, dev, key, value, keys) ==
    LET result == SafeGetDeveloperCall(devs, dev, keys)
        old == IF dev \in DOMAIN devs THEN devs[dev] ELSE result[1]
        entry == [f \in DOMAIN old \cup {key} |-> IF f = key THEN value ELSE old[f]]
    IN  [returned |-> result[2],
         devs |-> [k \in DOMAIN devs \cup {dev} |-> IF k = dev THEN entry ELSE devs[k]]]

\* common_utils.safeSetDeveloper(devs, dev, key, value, keys): what it
\* returns and the map it leaves ("result[0][key] = value; devs[dev] =
\* result[0]; return result[1]")
SafeSetDeveloperCall(devs, dev, key, value, keys) ==
    LET result == SafeGetDeveloperCall(devs, dev, keys)
        entry == [f \in keys \cup {key} |-> IF f = key THEN value ELSE result[1][f]]
    IN  [returned |-> result[2],
         devs |-> [k \in DOMAIN devs \cup {dev} |-> IF k = dev THEN entry ELSE devs[k]]]

\* getResult's calls of safeGetDeveloper, with the list of the seven
\* fields: <<the entry's fields, 1>> when the key is present, <<an
\* all-zero record, 0>> when it is not.
safeGetDeveloper(devs, dev) == SafeGetDeveloperCall(devs, dev, devFields)

\* getResult's call of safeSetDeveloper, with the list of the seven fields:
\* the developers map after the call.
safeSetDeveloper(devs, dev, key, value) ==
    SafeSetDeveloperCall(devs, dev, key, value, devFields).devs

\* The value a Python dict.get(key, 0) would give
TimeOf(dta, d) == IF d \in DOMAIN dta THEN dta[d] ELSE Zero

VARIABLES
    \* inputs of getResult
    conf,                     \* the project configuration
    spentTime,                \* view_developer_statistic: dev -> <<closed, open>>
    bugAssignments,           \* bug -> sequence of candidate edges
    bugStatistics,            \* bug -> population averages
    developers,               \* key -> snapshot (numAssigned is written)
    \* the pass
    pc,                       \* "for_bug", "for_dev", "done"
    bug,                      \* the bug being processed
    devIdx,                   \* position in bugAssignments[bug]
    assignee, assigneeTime, assigneeRank, assigneeNumAssigned,
    analysedDevelopers,
    developerTimeAssignments,
    developerBusyDict,
    assignmentResults,
    issue_assignment,
    \* locals of the last loop iteration
    developer, developerBusy, rank, timeAssignments,
    \* history, for stating properties only
    scored,                   \* per bug: each scored candidate, in order
    committed,                \* per pass: each emitted assignment with its times
    atBugStart                \* load, developers map and busy set when the bug began

VARIABLES
    \* handleResult and the grid search around the pass
    phase,                    \* which caller runs the pass, and where it is
    runMode,                  \* issueAnalyzer.runMode
    gridSearchParameters,     \* coefficient name -> candidate values
    gridSearchList,           \* the vectors still to evaluate
    coefficients,             \* the vector being evaluated (differentCoeff)
    bestScore, bestCoefficients,
    stored,                   \* the project's rows in table issue_assignment
    actual,                   \* bug -> the developer that really fixed it
    \* history, for stating properties only
    loaded,                   \* the developers map and configuration as read
    evaluated                 \* one record per finished calculateScore

outer == <<phase, runMode, gridSearchParameters, gridSearchList, coefficients,
           bestScore, bestCoefficients, stored, actual, loaded, evaluated>>

VARIABLES
    \* one call of a function of common_utils.py, studied on its own
    call,                     \* the function and its arguments
    outcome                   \* what the call returned and left behind

aside == <<call, outcome>>

VARIABLES
    \* the cache of issue_cache.py
    files,                    \* the regular files: path -> content
    dirs,                     \* the directories that exist
    issueAnalyzer             \* the IssueAnalyzer instance the cache serves

cache == <<files, dirs, issueAnalyzer>>

VARIABLES
    \* the services around the analysis
    db,                       \* DBManager: one doExec call and its connection
    handler                   \* IssueAnalyzer.handle: its flags, position and history

service == <<db, handler>>

\* No service is in use
NoService ==
    /\ db = [pc |-> "idle"]
    /\ handler = [pc |-> "idle"]

\* No cache is in use
NoCache ==
    /\ files = [p \in {} |-> <<>>]
    /\ dirs = {}
    /\ issueAnalyzer = [indexType |-> 0]

\* No such call is studied
NoAside ==
    /\ call = [fn |-> "none"]
    /\ outcome = [fn |-> "none"]
    /\ NoCache
    /\ NoService

inputs == <<conf, spentTime, bugAssignments, bugStatistics, outer, aside,
            cache, service>>
assigneeVars == <<assignee, assigneeTime, assigneeRank, assigneeNumAssigned>>
locals == <<developer, developerBusy, rank, timeAssignments>>
vars == <<conf, spentTime, bugAssignments, bugStatistics, developers, pc, bug,
          devIdx, assignee, assigneeTime, assigneeRank, assigneeNumAssigned,
          analysedDevelopers, developerTimeAssignments, developerBusyDict,
          assignmentResults, issue_assignment, developer, developerBusy, rank,
          timeAssignments, scored, committed, atBugStart, outer, aside,
          cache, service>>

\* ------------------------------------------------- one candidate's numbers
\* Mutant: the two times are taken from the open-bug snapshot when there
\* is one.
CombinedDetailsPreferOpen(devs, e) ==
    LET fixed == safeGetDeveloper(devs, DevKey(e.developer, e.component, e.priority, 0))
        open == safeGetDeveloper(devs, DevKey(e.developer, e.component, e.priority, 1))
        openBugsExists == open[2] = 1
    IN  [reviews |-> Add(fixed[1].reviews, open[1].reviews),
         numAssigned |-> Add(fixed[1].numAssigned, open[1].numAssigned),
         numAttachment |-> Add(fixed[1].numAttachment, open[1].numAttachment),
         numComment |-> Add(fixed[1].numComment, open[1].numComment),
         sizeAttachment |-> Add(fixed[1].sizeAttachment, open[1].sizeAttachment),
         devAvgTime |-> IF openBugsExists THEN open[1].devAvgTime
                        ELSE fixed[1].devAvgTime,
         bugAvgETA |-> IF openBugsExists THEN open[1].bugAvgETA
                       ELSE fixed[1].bugAvgETA,
         numAssignedOpen |-> open[1].numAssigned]

\* getResult, "Get the complete developers details": the fixed-bug and the
\* open-bug snapshot of the edge's developer/component/priority, combined.
CombinedDetails(devs, e) ==
    LET fixed == safeGetDeveloper(devs, DevKey(e.developer, e.component, e.priority, 0))
        open == safeGetDeveloper(devs, DevKey(e.developer, e.component, e.priority, 1))
        fixedBugsExists == fixed[2] = 1
    IN  [reviews |-> Add(fixed[1].reviews, open[1].reviews),
         numAssigned |-> Add(fixed[1].numAssigned, open[1].numAssigned),
         numAttachment |-> Add(fixed[1].numAttachment, open[1].numAttachment),
         numComment |-> Add(fixed[1].numComment, open[1].numComment),
         sizeAttachment |-> Add(fixed[1].sizeAttachment, open[1].sizeAttachment),
         devAvgTime |-> IF fixedBugsExists THEN fixed[1].devAvgTime
                        ELSE open[1].devAvgTime,
         bugAvgETA |-> IF fixedBugsExists THEN fixed[1].bugAvgETA
                       ELSE open[1].bugAvgETA,
         numAssignedOpen |-> open[1].numAssigned]

\* The load the gate reads for a developer: developerTimeAssignments[developer]
\* if the developer has an entry, else 0.
TimeAssignments(dta, dev) == TimeOf(dta, dev)

\* Mutant: the gate compares with "<" instead of "<=".
DeveloperBusyStrict(cf, timeAvailable, timeUnavailable, load) ==
    Less(Sub(Mul(cf.timeIncrement,
                 Float(PyDiv(Mul(timeAvailable, cf.bugOpenedDays), cf.bugFixedDays))),
             Float(Add(timeUnavailable, load))),
         Zero)

\* getResult, the capacity gate:
\*   timeIncrement*float(timeAvailable*opened/fixed) - float(timeUnavailable+timeAssignments) <= 0
\* timeAvailable, opened and fixed are ints, so the quotient is floored.
DeveloperBusy(cf, timeAvailable, timeUnavailable, load) ==
    Leq(Sub(Mul(cf.timeIncrement,
                Float(PyDiv(Mul(timeAvailable, cf.bugOpenedDays), cf.bugFixedDays))),
            Float(Add(timeUnavailable, load))),
        Zero)

\* Mutant: the fallback is the average itself, without the "+1".
AvailabilityFallbackAverage(stat, d) ==
    Float(safeDiv(stat.avgNumAssigned, d.numAssigned, stat.avgNumAssigned))

\* getResult, the five sub-scores of a candidate (d: combined details,
\* stat: the bug's averages)
Availability(stat, d) ==
    Float(safeDiv(stat.avgNumAssigned, d.numAssigned, Add(stat.avgNumAssigned, One)))

Collaborativity(stat, d) ==
    Float(Add(safeDiv(d.numAttachment, stat.avgNumAttachment, d.numAttachment),
              safeDiv(d.numComment, stat.avgNumComment, d.numComment)))

Competency(stat, d) ==
    Float(Add(safeDiv(d.numAssigned, stat.avgNumAssigned, d.numAssigned),
              safeDiv(d.reviews, stat.avgReviews, d.reviews)))

Productivity(stat, d) ==
    Float(Mul(Add(Mul(safeDiv(d.reviews, stat.avgReviews, Zero),
                      Mul(safeDiv(d.sizeAttachment, stat.avgSizeAttachment, d.sizeAttachment),
                          safeDiv(d.numAttachment, stat.avgNumAttachment, d.numAttachment))),
                  safeDiv(d.numComment, stat.avgNumComment, d.numComment)),
              safeDiv(stat.avgDevAvgTime, d.devAvgTime, Add(stat.avgDevAvgTime, One))))

Reliability(stat, d) ==
    Float(Mul(safeDiv(d.numAssigned, stat.avgNumAssigned, d.numAssigned),
              safeDiv(stat.avgDevAvgTime, d.devAvgTime, Add(stat.avgDevAvgTime, One))))

\* Mutant: the competency term is missing from the sum.
RankWithoutCompetency(cf, stat, d) ==
    Add(Add(Add(Mul(Availability(stat, d), cf.coeffAvailability),
                Mul(Collaborativity(stat, d), cf.coeffCollaborativity)),
            Mul(Productivity(stat, d), cf.coeffProductivity)),
        Mul(Reliability(stat, d), cf.coeffReliability))

\* getResult, "Calculate the total rank"
Rank(cf, stat, d) ==
    Add(Add(Add(Add(Mul(Availability(stat, d), cf.coeffAvailability),
                    Mul(Collaborativity(stat, d), cf.coeffCollaborativity)),
                Mul(Competency(stat, d), cf.coeffCompetency)),
            Mul(Productivity(stat, d), cf.coeffProductivity)),
        Mul(Reliability(stat, d), cf.coeffReliability))

\* Mutant: ">=" instead of ">".
IsBetterOrEqual(r, best) == Leq(best, r)

\* "if rank > assigneeRank": the candidate replaces the current best
IsBetter(r, best) == Less(best, r)

\* ---------------------------------------------------------------- inputs
\* issueAnalyzerTimeIncrement, in tenths: the default 1.1
DefaultTimeIncrement == 10 + 1

\* The five coefficients, in hundredths: the defaults of common_utils.py,
\* equal weights, the all-zero vector and a vector with a negative weight
\* (the configuration is not validated).
DefaultCoefficients == <<20, 15, 15, 30, 20>>
CoeffVectors == {DefaultCoefficients, <<100, 100, 100, 100, 100>>,
                 <<0, 0, -30000, 0, 0>>}

Conf(ti, c) ==
    [timeIncrement |-> Rat(ti, 10),
     coeffAvailability |-> Rat(c[1], 100),
     coeffCollaborativity |-> Rat(c[2], 100),
     coeffCompetency |-> Rat(c[3], 100),
     coeffProductivity |-> Rat(c[4], 100),
     coeffReliability |-> Rat(c[5], 100),
     bugOpenedDays |-> PyInt(BugOpenedDays),
     bugFixedDays |-> PyInt(BugFixedDays)]

\* The configurations: every coefficient vector with the default time
\* increment, and the default coefficients with a time increment of 1.0.
Confs == {Conf(DefaultTimeIncrement, c) : c \in CoeffVectors}
             \cup {Conf(10, DefaultCoefficients)}

\* view_developer_statistic: <<minutes on closed bugs, minutes on open bugs>>
SpentTimes == {<<a, 0>> : a \in 0..(MaxTime - 1)} \cup {<<MaxTime, MaxTime - 1>>}

\* A row of view_assignment for a developer of activity level l: the
\* fixed-bug class has every counter at l and an average time of l + 1, the
\* open-bug class has every counter at 1 and no resolution time yet.
Snapshot(level, isOpen) ==
    IF isOpen = 0
    THEN [reviews |-> PyInt(level), numAssigned |-> PyInt(level),
          numAttachment |-> PyInt(level), numComment |-> PyInt(level),
          sizeAttachment |-> PyInt(level), devAvgTime |-> Rat(level + 1, 1),
          bugAvgETA |-> Rat(level + 2, 1)]
    ELSE [reviews |-> One, numAssigned |-> One, numAttachment |-> One,
          numComment |-> One, sizeAttachment |-> One,
          devAvgTime |-> Rat(0, 1), bugAvgETA |-> Rat(1, 1)]

\* The activity levels of the developers: all alike (equal ranks), or rising
\* with the developer's number up to MaxStat.
LevelPatterns ==
    {[d \in Devs |-> 1], [d \in Devs |-> IF d - 1 < MaxStat THEN d - 1 ELSE MaxStat]}

\* A row of the grouped statistics query: every average equal to a
AvgStat(a) ==
    [avgNumAssigned |-> Rat(a, 1), avgDevAvgTime |-> Rat(a, 1),
     avgNumComment |-> Rat(a, 1), avgNumAttachment |-> Rat(a, 1),
     avgReviews |-> Rat(a, 1), avgSizeAttachment |-> Rat(a, 1)]

\* The candidate lists a bug may have: every developer once (in either
\* order), a developer twice in a row through its fixed and open edge, and
\* a developer twice with another candidate in between.
Ascending == [i \in 1..NumDevs |-> Edge(i, 0)]
Descending == [i \in 1..NumDevs |-> Edge(NumDevs + 1 - i, 0)]
CandidateLists ==
    {Ascending, Descending,
     <<Edge(1, 0), Edge(1, 1), Edge(2, 0)>>,
     <<Edge(2, 1), Edge(1, 0), Edge(2, 0)>>}

\* handleResult: the developers map built from the rows of view_assignment,
\* one entry per key that occurs in some bug's candidate list.
LoadDevelopers(lists, level) ==
    LET keys == UNION {{DevKey(lists[b][i].developer, lists[b][i].component,
                               lists[b][i].priority, lists[b][i].isOpen) :
                            i \in 1..Len(lists[b])} : b \in DOMAIN lists}
    IN  [k \in keys |-> Snapshot(level[k[1]], k[4])]

\* Mutant: the sentinel has lost its sign.
AssigneeRankAtStartPositive == PyInt(-InitialAssigneeRank)

\* "assigneeRank = -255": the rank a bug's first candidate has to beat
AssigneeRankAtStart == PyInt(InitialAssigneeRank)

\* The names of the five coefficients, in the order of the nested loops of
\* generateCoefficientList
CoeffNames == <<"coeffAvailability", "coeffCollaborativity", "coeffCompetency",
                "coeffProductivity", "coeffReliability">>

\* A coefficient vector: the dict generateCoefficientList appends
Vector(a, b, c, d, e) ==
    [coeffAvailability |-> a, coeffCollaborativity |-> b, coeffCompetency |-> c,
     coeffProductivity |-> d, coeffReliability |-> e]

\* getResult's default "differentCoeff = {}": the configured weights apply
NoCoefficients == [c \in {} |-> 0]

\* handleResult: the initial value of bestCoefficients
ZeroCoefficients == Vector(0, 0, 0, 0, 0)

\* The variables of handleResult while getResult is studied on its own
NoCaller ==
    /\ phase = "getResult"
    /\ runMode = RUN_MODE_ANALYSIS
    /\ gridSearchParameters = [c \in {} |-> <<>>]
    /\ gridSearchList = <<>>
    /\ coefficients = NoCoefficients
    /\ bestScore = Zero
    /\ bestCoefficients = ZeroCoefficients
    /\ stored = {}
    /\ actual = [b \in {} |-> None]
    /\ loaded = [developers |-> developers, conf |-> conf]
    /\ evaluated = <<>>
    /\ NoAside

\* ------------------------------------------------------------------ Init
\* The state when getResult starts its loop over the bugs: the inputs as
\* handleResult loaded them, empty result and bookkeeping dicts.
Init ==
    /\ conf \in Confs
    /\ spentTime \in [Devs -> SpentTimes]
    /\ bugAssignments \in [Bugs -> CandidateLists]
    /\ bugStatistics = [b \in Bugs |-> AvgStat(1)]
    /\ \E level \in LevelPatterns :
          developers = LoadDevelopers(bugAssignments, level)
    /\ pc = "for_bug"
    /\ bug = 0
    /\ devIdx = 0
    /\ assignee = None
    /\ assigneeTime = Zero
    /\ assigneeRank = AssigneeRankAtStart
    /\ assigneeNumAssigned = PyInt(InitialAssigneeNumAssigned)
    /\ analysedDevelopers = <<>>
    /\ developerTimeAssignments = <<>>
    /\ developerBusyDict = {}
    /\ assignmentResults = <<>>
    /\ issue_assignment = <<>>
    /\ developer = None
    /\ developerBusy = FALSE
    /\ rank = Zero
    /\ timeAssignments = Zero
    /\ scored = <<>>
    /\ committed = <<>>
    /\ atBugStart = [time |-> <<>>, developers |-> developers, busy |-> {}]
    /\ NoCaller

\* --------------------------------------------------------------- actions
\* "for bug in bugAssignments.keys()": the next bug, its assignee variables
\* initialised.  Bugs are taken in ascending order of their id.
StartBug ==
    /\ pc = "for_bug"
    /\ bug < Cardinality(DOMAIN bugAssignments)
    /\ bug' = bug + 1
    /\ devIdx' = 1
    /\ assignee' = None
    /\ assigneeTime' = Zero
    /\ assigneeRank' = AssigneeRankAtStart
    /\ assigneeNumAssigned' = PyInt(InitialAssigneeNumAssigned)
    /\ analysedDevelopers' = <<>>
    /\ pc' = "for_dev"
    /\ scored' = <<>>
    /\ atBugStart' = [time |-> developerTimeAssignments,
                      developers |-> developers,
                      busy |-> developerBusyDict]
    /\ UNCHANGED <<inputs, developers, developerTimeAssignments,
                   developerBusyDict, assignmentResults, issue_assignment, locals,
                   committed>>

InLoop == pc = "for_dev" /\ devIdx <= Len(bugAssignments[bug])
dev == bugAssignments[bug][devIdx]

\* "Don't analyze developer without time"
IsSkippedBusy(d, busy) == d \in busy
\* Mutant: the check against analysedDevelopers is missing.
IsAnalysedNever(d, analysed) == FALSE

\* "Don't analyze a developer twice for the same bug"
IsAnalysed(d, analysed) == \E i \in 1..Len(analysed) : analysed[i] = d

SkipBusy ==
    /\ InLoop
    /\ IsSkippedBusy(dev.developer, developerBusyDict)
    /\ devIdx' = devIdx + 1
    /\ UNCHANGED <<inputs, developers, pc, bug, assigneeVars, analysedDevelopers,
                   developerTimeAssignments, developerBusyDict, assignmentResults,
                   issue_assignment, locals, scored, committed, atBugStart>>

SkipAnalysed ==
    /\ InLoop
    /\ ~IsSkippedBusy(dev.developer, developerBusyDict)
    /\ IsAnalysed(dev.developer, analysedDevelopers)
    /\ devIdx' = devIdx + 1
    /\ UNCHANGED <<inputs, developers, pc, bug, assigneeVars, analysedDevelopers,
                   developerTimeAssignments, developerBusyDict, assignmentResults,
                   issue_assignment, locals, scored, committed, atBugStart>>

\* The candidate that passes both skips is gated
IsEvaluated ==
    /\ InLoop
    /\ ~IsSkippedBusy(dev.developer, developerBusyDict)
    /\ ~IsAnalysed(dev.developer, analysedDevelopers)

\* "reviews = reviewsFixed + reviewsOpen" and the four sums after it raise
\* a TypeError when a counter of a snapshot is None
DetailsRaise(devs, e) ==
    \E o \in {0, 1} :
        \E f \in {"reviews", "numAssigned", "numAttachment", "numComment",
                   "sizeAttachment"} :
            IsNull(safeGetDeveloper(devs, DevKey(e.developer, e.component,
                                                 e.priority, o))[1][f])

\* What the quotient of the capacity gate raises, "none" when it has a value
GateException(cf) ==
    IF IsZero(cf.bugFixedDays) THEN "ZeroDivisionError" ELSE "none"

\* The arguments "avgNumAssigned+1" and "avgDevAvgTime + 1" of the safeDiv
\* calls raise a TypeError when the average is None
ScoreRaises(stat) == IsNull(stat.avgNumAssigned) \/ IsNull(stat.avgDevAvgTime)

\* The candidate's snapshots are combined and the gate is evaluated
IsGated ==
    /\ IsEvaluated
    /\ ~DetailsRaise(developers, dev)
    /\ GateException(conf) = "none"

details == CombinedDetails(developers, dev)
candidateLoad == TimeAssignments(developerTimeAssignments, dev.developer)
candidateBusy ==
    DeveloperBusy(conf, PyInt(spentTime[dev.developer][1]),
                  PyInt(spentTime[dev.developer][2]), candidateLoad)
candidateRank == Rank(conf, bugStatistics[bug], details)

\* Mutant: the branch marks the current best candidate instead of the
\* developer that failed the gate.
BusyAfterGateMarksAssignee(busy, d, best) ==
    IF best # None THEN busy \cup {best} ELSE busy

\* The else branch of "if not developerBusy": "Add developer to busy dict"
BusyAfterGate(busy, d, best) == busy \cup {d}

MarkBusy ==
    /\ IsGated
    /\ candidateBusy
    /\ analysedDevelopers' = Append(analysedDevelopers, dev.developer)
    /\ developer' = dev.developer
    /\ developerBusy' = TRUE
    /\ timeAssignments' = candidateLoad
    /\ developerBusyDict' = BusyAfterGate(developerBusyDict, dev.developer, assignee)
    /\ devIdx' = devIdx + 1
    /\ UNCHANGED <<inputs, developers, pc, bug, assigneeVars, rank,
                   developerTimeAssignments, assignmentResults, issue_assignment,
                   scored, committed, atBugStart>>

\* Mutant: the previous best candidate keeps its debit.
DisplaceNothing(dta, prev, prevTime) == dta

\* "Delete previous developer time assignments": the load map after the
\* previous best candidate's debit is taken back.
Displace(dta, prev, prevTime) ==
    IF prev # None THEN [dta EXCEPT ![prev] = Sub(dta[prev], prevTime)] ELSE dta

\* "developerTimeAssignments[developer] = timeAssignments": d's entry set to v
SetTime(dta, d, v) ==
    [k \in DOMAIN dta \cup {d} |-> IF k = d THEN v ELSE dta[k]]

\* Mutant: the debit overwrites the load instead of adding to it.
DebitOverwrites(load, time) == time

\* "timeAssignments = timeAssignments+assigneeTime": the candidate's load
\* with its own debit added
Debit(load, time) == Add(load, time)

\* What the debug log line of a scored candidate shows, with the two times
\* of its combined details
ScoredEntry ==
    [developer |-> dev.developer, rank |-> candidateRank,
     devAvgTime |-> details.devAvgTime, bugAvgETA |-> details.bugAvgETA]

\* "if rank > assigneeRank": the candidate becomes the provisional assignee
Accept ==
    /\ IsGated
    /\ ~candidateBusy
    /\ ~ScoreRaises(bugStatistics[bug])
    /\ IsBetter(candidateRank, assigneeRank)
    /\ ~IsNull(details.devAvgTime)
    /\ analysedDevelopers' = Append(analysedDevelopers, dev.developer)
    /\ developer' = dev.developer
    /\ developerBusy' = FALSE
    /\ rank' = candidateRank
    /\ developerBusyDict' = IF assignee # None THEN developerBusyDict \ {assignee}
                            ELSE developerBusyDict
    /\ assignee' = dev.developer
    /\ assigneeRank' = candidateRank
    /\ assigneeNumAssigned' = Add(details.numAssignedOpen, One)
    /\ developers' = safeSetDeveloper(developers,
                         DevKey(dev.developer, dev.component, dev.priority, 1),
                         "numAssigned", Add(details.numAssignedOpen, One))
    /\ assigneeTime' = details.devAvgTime
    /\ timeAssignments' = Debit(candidateLoad, details.devAvgTime)
    /\ developerTimeAssignments' =
           SetTime(Displace(developerTimeAssignments, assignee, assigneeTime),
                   dev.developer, Debit(candidateLoad, details.devAvgTime))
    /\ scored' = Append(scored, ScoredEntry)
    /\ devIdx' = devIdx + 1
    /\ UNCHANGED <<inputs, pc, bug, assignmentResults, issue_assignment, committed,
                   atBugStart>>

\* The candidate is eligible but does not beat the current best
Reject ==
    /\ IsGated
    /\ ~candidateBusy
    /\ ~ScoreRaises(bugStatistics[bug])
    /\ ~IsBetter(candidateRank, assigneeRank)
    /\ analysedDevelopers' = Append(analysedDevelopers, dev.developer)
    /\ developer' = dev.developer
    /\ developerBusy' = FALSE
    /\ rank' = candidateRank
    /\ timeAssignments' = candidateLoad
    /\ scored' = Append(scored, ScoredEntry)
    /\ devIdx' = devIdx + 1
    /\ UNCHANGED <<inputs, developers, pc, bug, assigneeVars,
                   developerTimeAssignments, developerBusyDict, assignmentResults,
                   issue_assignment, committed, atBugStart>>

\* Mutant: the assignee is stored without the test.
StoresAssigneeAlways(a) == TRUE

\* "if not assignee is None"
StoresAssignee(a) == a # None

\* The scored entry of the bug's final assignee
AssigneeEntry ==
    LET i == CHOOSE i \in 1..Len(scored) : scored[i].developer = assignee
    IN  [bug |-> bug, developer |-> assignee, devAvgTime |-> scored[i].devAvgTime,
         bugAvgETA |-> scored[i].bugAvgETA]

\* Mutant: the bug id and the developer have changed places in the tuple.
AssignmentRowSwapped(b, a) == <<a, projectId, b>>

\* "issue_assignment.append((bug, projectId, assignee))": the emitted row
AssignmentRow(b, a) == <<b, projectId, a>>

\* "Store the assignee if he/she exists"
FinishBug ==
    /\ pc = "for_dev"
    /\ devIdx > Len(bugAssignments[bug])
    /\ IF StoresAssignee(assignee)
       THEN /\ assignmentResults' =
                   [b \in DOMAIN assignmentResults \cup {bug} |->
                       IF b = bug
                       THEN [developer |-> assignee, rank |-> assigneeRank,
                             assigned |-> assigneeNumAssigned]
                       ELSE assignmentResults[b]]
            /\ issue_assignment' = Append(issue_assignment, AssignmentRow(bug, assignee))
            /\ committed' = IF assignee # None THEN Append(committed, AssigneeEntry)
                             ELSE committed
       ELSE UNCHANGED <<assignmentResults, issue_assignment, committed>>
    /\ pc' = "for_bug"
    /\ UNCHANGED <<inputs, developers, bug, devIdx, assigneeVars, analysedDevelopers,
                   developerTimeAssignments, developerBusyDict, locals, scored,
                   atBugStart>>

\* "return issue_assignment"
Return ==
    /\ pc = "for_bug"
    /\ bug = Cardinality(DOMAIN bugAssignments)
    /\ pc' = "done"
    /\ UNCHANGED <<inputs, developers, bug, devIdx, assigneeVars, analysedDevelopers,
                   developerTimeAssignments, developerBusyDict, assignmentResults,
                   issue_assignment, locals, scored, committed, atBugStart>>

Next ==
    \/ StartBug
    \/ SkipBusy
    \/ SkipAnalysed
    \/ MarkBusy
    \/ Accept
    \/ Reject
    \/ FinishBug
    \/ Return

Spec == Init /\ [][Next]_vars

\* ------------------------------------------- generateCoefficientList
\* The concatenation of a sequence of sequences: what a loop that appends
\* each inner result in turn builds.
RECURSIVE Concat(_)
Concat(ss) == IF Len(ss) = 0 THEN <<>> ELSE Head(ss) \o Concat(Tail(ss))

\* Mutant: the competency entry is filled from the collaborativity loop
\* variable.
GenerateCoefficientListTypo(p) ==
    Concat([a \in 1..Len(p.coeffAvailability) |->
      Concat([b \in 1..Len(p.coeffCollaborativity) |->
        Concat([c \in 1..Len(p.coeffCompetency) |->
          Concat([d \in 1..Len(p.coeffProductivity) |->
            [e \in 1..Len(p.coeffReliability) |->
                Vector(p.coeffAvailability[a], p.coeffCollaborativity[b],
                       p.coeffCollaborativity[b], p.coeffProductivity[d],
                       p.coeffReliability[e])]])])])])

\* generateCoefficientList: five nested for loops, the innermost appending
\* one dict per combination.
GenerateCoefficientList(p) ==
    Concat([a \in 1..Len(p.coeffAvailability) |->
      Concat([b \in 1..Len(p.coeffCollaborativity) |->
        Concat([c \in 1..Len(p.coeffCompetency) |->
          Concat([d \in 1..Len(p.coeffProductivity) |->
            [e \in 1..Len(p.coeffReliability) |->
                Vector(p.coeffAvailability[a], p.coeffCollaborativity[b],
                       p.coeffCompetency[c], p.coeffProductivity[d],
                       p.coeffReliability[e])]])])])])

\* The candidate-value sequences given to generateCoefficientList: the
\* empty one, range(0, n), and n times the same value.
CandidateValues ==
    {<<>>} \cup {[i \in 1..n |-> i - 1] : n \in 1..MaxValues}
           \cup {[i \in 1..n |-> 1] : n \in 2..MaxValues}

\* The variables of the pass while no pass is running
NoPass ==
    /\ conf = Conf(DefaultTimeIncrement, DefaultCoefficients)
    /\ spentTime = [d \in Devs |-> <<0, 0>>]
    /\ bugAssignments = [b \in Bugs |-> <<>>]
    /\ bugStatistics = [b \in Bugs |-> AvgStat(1)]
    /\ developers = [k \in {} |-> Zero]
    /\ pc = "done"
    /\ bug = 0
    /\ devIdx = 0
    /\ assignee = None
    /\ assigneeTime = Zero
    /\ assigneeRank = AssigneeRankAtStart
    /\ assigneeNumAssigned = PyInt(InitialAssigneeNumAssigned)
    /\ analysedDevelopers = <<>>
    /\ developerTimeAssignments = <<>>
    /\ developerBusyDict = {}
    /\ assignmentResults = <<>>
    /\ issue_assignment = <<>>
    /\ developer = None
    /\ developerBusy = FALSE
    /\ rank = Zero
    /\ timeAssignments = Zero
    /\ scored = <<>>
    /\ committed = <<>>
    /\ atBugStart = [time |-> <<>>, developers |-> developers, busy |-> {}]

\* A caller about to call generateCoefficientList(gridSearchParameters)
ListInit ==
    /\ NoPass
    /\ phase = "list"
    /\ runMode = RUN_MODE_TEST
    /\ gridSearchParameters \in [{CoeffNames[i] : i \in 1..5} -> CandidateValues]
    /\ gridSearchList = <<>>
    /\ coefficients = NoCoefficients
    /\ bestScore = Zero
    /\ bestCoefficients = ZeroCoefficients
    /\ stored = {}
    /\ actual = [b \in {} |-> None]
    /\ loaded = [developers |-> developers, conf |-> conf]
    /\ evaluated = <<>>
    /\ NoAside

\* "gridSearchList = generateCoefficientList(gridSearchParameters)"
GenerateList ==
    /\ phase = "list"
    /\ gridSearchList' = GenerateCoefficientList(gridSearchParameters)
    /\ phase' = "listed"
    /\ UNCHANGED <<conf, spentTime, bugAssignments, bugStatistics, developers, pc,
                   bug, devIdx, assigneeVars, analysedDevelopers,
                   developerTimeAssignments, developerBusyDict, assignmentResults,
                   issue_assignment, locals, scored, committed, atBugStart,
                   runMode, gridSearchParameters, coefficients, bestScore,
                   bestCoefficients, stored, actual, loaded, evaluated, aside,
                   cache, service>>

ListNext == GenerateList

ListSpec == ListInit /\ [][ListNext]_vars

\* ------------------------------------------- getScore and calculateScore
\* view_reality_check: the (TP, FP, FN) triple for the stored rows, compared
\* with the developers that really resolved the bugs.
RealityCheck(rows, truth) ==
    LET hits == {r \in rows : r[1] \in DOMAIN truth /\ truth[r[1]] = r[3]}
    IN  [tP |-> Cardinality(hits),
         fP |-> Cardinality(rows) - Cardinality(hits),
         fN |-> Cardinality({b \in DOMAIN truth :
                                <<b, projectId, truth[b]>> \notin rows})]

\* Mutant: the insert fails and the error is only logged.
StoreNothing(table, rows) == table

\* DBManager.add_issue_assignment: the table after the rows are inserted
StoreAssignments(table, rows) == table \cup {rows[i] : i \in 1..Len(rows)}

\* deleteProjectAssignments: the table after the project's rows are deleted
DeleteProjectAssignments(table) == {r \in table : r[2] # projectId}

\* Mutant: the two denominators have changed places.
MeasuresDenominatorsSwapped(tP, fP, fN) ==
    LET P == safeDiv(PyInt(tP), Float(PyInt(tP + fP)), Zero)
        R == safeDiv(PyInt(tP), Float(PyInt(tP + fN)), Zero)
    IN  [P |-> P, R |-> R,
         F |-> safeDiv(Mul(Mul(PyInt(2), P), R), Add(P, R), Zero)]

\* Mutant: F is the first measure alone.
MeasuresWithoutMean(tP, fP, fN) ==
    LET P == safeDiv(PyInt(tP), Float(PyInt(tP + fN)), Zero)
        R == safeDiv(PyInt(tP), Float(PyInt(tP + fP)), Zero)
    IN  [P |-> P, R |-> R, F |-> P]

\* getScore, 917-921: P, R and F of the reality-check triple
Measures(tP, fP, fN) ==
    LET P == safeDiv(PyInt(tP), Float(PyInt(tP + fN)), Zero)
        R == safeDiv(PyInt(tP), Float(PyInt(tP + fP)), Zero)
    IN  [P |-> P, R |-> R,
         F |-> safeDiv(Mul(Mul(PyInt(2), P), R), Add(P, R), Zero)]

\* getScore: (nA, tA, tP, fP, fN, P, R, F) for the rows of a pass, the
\* reality check being read after the rows are stored
GetScore(mode, rows, stats, table, truth) ==
    LET check == RealityCheck(StoreAssignments(table, rows), truth)
        tP == IF mode = RUN_MODE_TEST THEN check.tP ELSE 0
        fP == IF mode = RUN_MODE_TEST THEN check.fP ELSE 0
        fN == IF mode = RUN_MODE_TEST THEN check.fN ELSE 0
        m == IF mode = RUN_MODE_TEST THEN Measures(tP, fP, fN)
             ELSE [P |-> Zero, R |-> Zero, F |-> Zero]
    IN  [nA |-> Len(rows), tA |-> Cardinality(DOMAIN stats),
         tP |-> tP, fP |-> fP, fN |-> fN, P |-> m.P, R |-> m.R, F |-> m.F]

\* Mutant: the score is returned as computed.
ZeroFillNever(nA, tA, F) == F

\* calculateScore: "Return F=0 if we didn't assign all bugs"
ZeroFill(nA, tA, F) == IF nA < tA THEN Zero ELSE F

\* Mutant: ">=" instead of ">".
IsBetterScoreOrEqual(score, best) == Leq(best, score)

\* handleResult: "if score > bestScore"
IsBetterScore(score, best) == Less(best, score)

\* getResult, "Overwrite coefficients if needed": the five coefficients the
\* pass uses when differentCoeff is the vector v
ConfWith(cf, v) ==
    IF DOMAIN v = {} THEN cf
    ELSE [cf EXCEPT !.coeffAvailability = PyInt(v.coeffAvailability),
                    !.coeffCollaborativity = PyInt(v.coeffCollaborativity),
                    !.coeffCompetency = PyInt(v.coeffCompetency),
                    !.coeffProductivity = PyInt(v.coeffProductivity),
                    !.coeffReliability = PyInt(v.coeffReliability)]

\* Mutant: the busy dict outlives the call.
NewBusyDictKept(old) == old

\* getResult: "developerBusyDict = dict()"
NewBusyDict(old) == {}

\* getResult: "developerTimeAssignments = dict()"
NewTimeDict(old) == <<>>

\* A call of getResult: its locals and result dicts as lines 709-735 leave
\* them, the loop over the bugs about to start.
EnterGetResult ==
    /\ pc' = "for_bug"
    /\ bug' = 0
    /\ devIdx' = 0
    /\ assignee' = None
    /\ assigneeTime' = Zero
    /\ assigneeRank' = AssigneeRankAtStart
    /\ assigneeNumAssigned' = PyInt(InitialAssigneeNumAssigned)
    /\ analysedDevelopers' = <<>>
    /\ developerTimeAssignments' = NewTimeDict(developerTimeAssignments)
    /\ developerBusyDict' = NewBusyDict(developerBusyDict)
    /\ assignmentResults' = <<>>
    /\ issue_assignment' = <<>>
    /\ developer' = None
    /\ developerBusy' = FALSE
    /\ rank' = Zero
    /\ timeAssignments' = Zero
    /\ scored' = <<>>
    /\ committed' = <<>>
    /\ atBugStart' = [time |-> <<>>, developers |-> developers', busy |-> {}]

\* ------------------------------------------------------- handleResult
\* Everything a call of getResult initialises
passVars == <<pc, bug, devIdx, assigneeVars, analysedDevelopers,
              developerTimeAssignments, developerBusyDict, assignmentResults,
              issue_assignment, locals, scored, committed, atBugStart>>

\* What handleResult reads and never writes
data == <<spentTime, bugAssignments, bugStatistics, actual, runMode, loaded,
          aside, cache, service>>

\* handleResult, "Create parameters to test": range(0, 2) for each name
GridSearchParameters == [n \in {CoeffNames[i] : i \in 1..5} |-> <<0, 1>>]

\* The time statistics of the search runs: every developer with room for
\* two bugs, every developer with room for one, only developer 1 with room
\* and for one bug only.
SearchSpentTimes ==
    {[d \in Devs |-> <<3, 0>>], [d \in Devs |-> <<2, 0>>],
     [d \in Devs |-> IF d = 1 THEN <<2, 0>> ELSE <<1, 0>>]}

\* The candidate maps of the search runs
SearchLists ==
    {[b \in Bugs |-> Ascending], [b \in Bugs |-> Descending],
     [b \in Bugs |-> IF b = 1 THEN Ascending
                     ELSE <<Edge(2, 1), Edge(1, 0), Edge(2, 0)>>]}

\* Who really resolved the bugs
Actuals ==
    {[b \in Bugs |-> 1], [b \in Bugs |-> NumDevs], [b \in Bugs |-> (b % NumDevs) + 1]}

\* The vectors whose evaluation on their own is compared with their
\* evaluation inside the search
ProbeVectors == {Vector(1, 0, 0, 0, 0), Vector(0, 0, 1, 0, 0), Vector(1, 1, 1, 1, 1)}

\* A pass is about to run on its own on the data just loaded: getResult
\* with the configured weights, or calculateScore with one vector.
SearchInit ==
    /\ spentTime \in SearchSpentTimes
    /\ bugAssignments \in SearchLists
    /\ bugStatistics = [b \in Bugs |-> AvgStat(1)]
    /\ \E level \in LevelPatterns :
          developers = LoadDevelopers(bugAssignments, level)
    /\ actual \in Actuals
    /\ \/ runMode = RUN_MODE_TEST /\ coefficients \in ProbeVectors \cup {NoCoefficients}
       \/ runMode = RUN_MODE_ANALYSIS /\ coefficients = NoCoefficients
    /\ conf = ConfWith(Conf(DefaultTimeIncrement, DefaultCoefficients), coefficients)
    /\ loaded = [developers |-> developers,
                 conf |-> Conf(DefaultTimeIncrement, DefaultCoefficients)]
    /\ phase = "alone"
    /\ gridSearchParameters = [c \in {} |-> <<>>]
    /\ gridSearchList = <<>>
    /\ bestScore = Zero
    /\ bestCoefficients = ZeroCoefficients
    /\ stored = {}
    /\ evaluated = <<>>
    /\ NoAside
    /\ pc = "for_bug"
    /\ bug = 0
    /\ devIdx = 0
    /\ assignee = None
    /\ assigneeTime = Zero
    /\ assigneeRank = AssigneeRankAtStart
    /\ assigneeNumAssigned = PyInt(InitialAssigneeNumAssigned)
    /\ analysedDevelopers = <<>>
    /\ developerTimeAssignments = <<>>
    /\ developerBusyDict = {}
    /\ assignmentResults = <<>>
    /\ issue_assignment = <<>>
    /\ developer = None
    /\ developerBusy = FALSE
    /\ rank = Zero
    /\ timeAssignments = Zero
    /\ scored = <<>>
    /\ committed = <<>>
    /\ atBugStart = [time |-> <<>>, developers |-> developers, busy |-> {}]

\* The record kept of a finished evaluation
Evaluation(kind, sc, score) ==
    [kind |-> kind, coefficients |-> coefficients, rows |-> issue_assignment,
     nA |-> sc.nA, tA |-> sc.tA, F |-> sc.F, score |-> score]

\* The pass run on its own has returned: its rows are stored and scored.
EndAlone ==
    /\ phase = "alone"
    /\ pc = "done"
    /\ LET sc == GetScore(runMode, issue_assignment, bugStatistics, stored, actual)
       IN  evaluated' = Append(evaluated,
                               Evaluation("alone", sc, ZeroFill(sc.nA, sc.tA, sc.F)))
    /\ stored' = StoreAssignments(stored, issue_assignment)
    /\ phase' = "reference"
    /\ UNCHANGED <<conf, developers, passVars, data, gridSearchParameters,
                   gridSearchList, coefficients, bestScore, bestCoefficients>>

\* handleResult is called on the same data: it loads the statistics, the
\* candidate map and the developers map (597-651) and calls getResult with
\* the configured weights (654).
HandleResult ==
    /\ phase = "reference"
    /\ developers' = loaded.developers
    /\ conf' = loaded.conf
    /\ coefficients' = NoCoefficients
    /\ stored' = {}
    /\ EnterGetResult
    /\ phase' = "initial"
    /\ UNCHANGED <<data, gridSearchParameters, gridSearchList, bestScore,
                   bestCoefficients, evaluated>>

\* handleResult, 657-674: the first pass is scored and printed; in test
\* mode the grid search is prepared.
EndInitial ==
    /\ phase = "initial"
    /\ pc = "done"
    /\ LET sc == GetScore(runMode, issue_assignment, bugStatistics, stored, actual)
       IN  evaluated' = Append(evaluated, Evaluation("initial", sc, sc.F))
    /\ stored' = StoreAssignments(stored, issue_assignment)
    /\ IF runMode = RUN_MODE_TEST
       THEN /\ gridSearchParameters' = GridSearchParameters
            /\ gridSearchList' = GenerateCoefficientList(GridSearchParameters)
            /\ bestScore' = Zero
            /\ bestCoefficients' = ZeroCoefficients
            /\ phase' = "search"
       ELSE /\ phase' = "ended"
            /\ UNCHANGED <<gridSearchParameters, gridSearchList, bestScore,
                           bestCoefficients>>
    /\ UNCHANGED <<conf, developers, passVars, data, coefficients>>

\* Mutant: the vector is taken from the front of the list.
popFront(list) == [item |-> Head(list), rest |-> Tail(list)]

\* "gridSearchList.pop()": the last item, and the list without it
pop(list) ==
    [item |-> list[Len(list)], rest |-> SubSeq(list, 1, Len(list) - 1)]

\* handleResult, 678-682, and calculateScore, 1005-1006: the last vector
\* of the list is taken, the project's rows are deleted and getResult is
\* called with the vector, on the same dicts as every call before.
CalculateScore ==
    /\ phase = "search"
    /\ gridSearchList # <<>>
    /\ coefficients' = pop(gridSearchList).item
    /\ gridSearchList' = pop(gridSearchList).rest
    /\ stored' = DeleteProjectAssignments(stored)
    /\ conf' = ConfWith(conf, coefficients')
    /\ UNCHANGED developers
    /\ EnterGetResult
    /\ phase' = "evaluating"
    /\ UNCHANGED <<data, gridSearchParameters, bestScore, bestCoefficients,
                   evaluated>>

\* calculateScore, 1007-1013, and handleResult, 685-687: the rows are
\* stored and scored, the score is zeroed for an incomplete assignment and
\* compared with the best.
EndCalculateScore ==
    /\ phase = "evaluating"
    /\ pc = "done"
    /\ LET sc == GetScore(runMode, issue_assignment, bugStatistics, stored, actual)
           score == ZeroFill(sc.nA, sc.tA, sc.F)
       IN  /\ evaluated' = Append(evaluated, Evaluation("search", sc, score))
           /\ IF IsBetterScore(score, bestScore)
              THEN bestScore' = score /\ bestCoefficients' = coefficients
              ELSE UNCHANGED <<bestScore, bestCoefficients>>
    /\ stored' = StoreAssignments(stored, issue_assignment)
    /\ phase' = "search"
    /\ UNCHANGED <<conf, developers, passVars, data, gridSearchParameters,
                   gridSearchList, coefficients>>

\* handleResult, 689-694: the list is empty, the best vector is logged.
EndSearch ==
    /\ phase = "search"
    /\ gridSearchList = <<>>
    /\ phase' = "ended"
    /\ UNCHANGED <<conf, developers, passVars, data, gridSearchParameters,
                   gridSearchList, coefficients, bestScore, bestCoefficients,
                   stored, evaluated>>

SearchNext ==
    \/ StartBug
    \/ SkipBusy
    \/ SkipAnalysed
    \/ MarkBusy
    \/ Accept
    \/ Reject
    \/ FinishBug
    \/ Return
    \/ EndAlone
    \/ HandleResult
    \/ EndInitial
    \/ CalculateScore
    \/ EndCalculateScore
    \/ EndSearch

SearchSpec == SearchInit /\ [][SearchNext]_vars

\* The search in test mode, from the loaded data
SearchFairInit ==
    /\ SearchInit
    /\ runMode = RUN_MODE_TEST
    /\ coefficients = NoCoefficients

\* The steps that only move the position in the code, and the steps that
\* gate, score and compare; exactly one step can be taken at any position
\* before the end, and ScoringDue is where it is one of the second kind.
ControlSteps ==
    \/ StartBug
    \/ SkipBusy
    \/ SkipAnalysed
    \/ FinishBug
    \/ Return
    \/ HandleResult
    \/ CalculateScore
    \/ EndSearch

ScoringSteps ==
    \/ MarkBusy
    \/ Accept
    \/ Reject
    \/ EndAlone
    \/ EndInitial
    \/ EndCalculateScore

ScoringDue ==
    \/ IsGated
    \/ pc = "done" /\ phase \in {"alone", "initial", "evaluating"}

\* handleResult is one thread of straight-line code: a step that can be
\* taken is taken.  This is weak fairness of both kinds of steps; for the
\* second kind it is written out, with ScoringDue for ENABLED.
SearchFairSpec ==
    /\ SearchFairInit
    /\ [][SearchNext]_vars
    /\ WF_vars(ControlSteps)
    /\ ([]<>~ScoringDue \/ []<><<ScoringSteps>>_vars)

\* ================================================================ claims
AtBugEnd == pc = "for_bug" /\ bug >= 1
CurrentList == bugAssignments[bug]
ListDevelopers(b) == {bugAssignments[b][i].developer : i \in 1..Len(bugAssignments[b])}
Emitted == {issue_assignment[i][3] : i \in 1..Len(issue_assignment)}

\* C1: a developer that fails the capacity gate is put in the busy set, no
\* step takes a developer out of the busy set, and a bug is never emitted
\* with an assignee that is in the busy set: so a developer marked busy is
\* not the assignee of any bug processed later in the pass.
C1_BusyNeverAssignedLater ==
    [][/\ developerBusyDict \subseteq developerBusyDict'
       /\ (developerBusy' /\ analysedDevelopers' # analysedDevelopers)
              => developer' \in developerBusyDict'
       /\ (issue_assignment' # issue_assignment)
              => issue_assignment'[Len(issue_assignment')][3] \notin developerBusyDict]_vars

\* C1 witness: a later bug was assigned although one of its candidates had
\* been marked busy in an earlier bug.
C1_Witness ==
    /\ AtBugEnd
    /\ bug >= 2
    /\ bug \in DOMAIN assignmentResults
    /\ ListDevelopers(bug) \cap atBugStart.busy # {}

\* C2: when a bug is finished, every developer other than the final
\* assignee has the load it had before the bug, and the final assignee's
\* load is its load before the bug plus its assigneeTime.
C2_OnlyWinnerDebited ==
    AtBugEnd =>
        \A d \in Devs :
            Eq(TimeOf(developerTimeAssignments, d),
               IF d = assignee
               THEN Add(TimeOf(atBugStart.time, d), assigneeTime)
               ELSE TimeOf(atBugStart.time, d))

\* C2 witness: a bug with three scored candidates of strictly increasing
\* rank and a positive debit each, finished with the third as assignee.
C2_Witness ==
    /\ AtBugEnd
    /\ Len(scored) = 3
    /\ Less(scored[1].rank, scored[2].rank)
    /\ Less(scored[2].rank, scored[3].rank)
    /\ \A i \in 1..3 : Less(Zero, scored[i].devAvgTime)
    /\ assignee = scored[3].developer

\* C3 (as claimed): when a bug is finished, the numAssigned of every
\* snapshot that does not belong to the final assignee is what it was
\* before the bug (0 for a snapshot that did not exist).
C3_DisplacedNumAssignedRestored ==
    AtBugEnd =>
        \A k \in DOMAIN developers :
            k[1] # assignee =>
                Eq(developers[k].numAssigned,
                   safeGetDeveloper(atBugStart.developers, k)[1].numAssigned)

Count(seq, d) == Cardinality({i \in 1..Len(seq) : seq[i] = d})
ScoredDevelopers == [i \in 1..Len(scored) |-> scored[i].developer]

\* C4: within a bug no developer is gated twice or scored twice, every
\* candidate edge already passed belongs to a developer that is busy or was
\* gated exactly once, and a developer's load differs from its load at the
\* start of the bug by at most one debit (that of the current assignee).
C4_EvaluatedOncePerBug ==
    (pc = "for_dev" \/ AtBugEnd) =>
        /\ \A d \in Devs : Count(analysedDevelopers, d) <= 1
        /\ \A d \in Devs : Count(ScoredDevelopers, d) <= 1
        /\ \A i \in 1..(devIdx - 1) :
               \/ CurrentList[i].developer \in developerBusyDict
               \/ Count(analysedDevelopers, CurrentList[i].developer) = 1
        /\ \A d \in Devs :
               \/ Eq(TimeOf(developerTimeAssignments, d), TimeOf(atBugStart.time, d))
               \/ /\ d = assignee
                  /\ Eq(TimeOf(developerTimeAssignments, d),
                        Add(TimeOf(atBugStart.time, d), assigneeTime))

\* C4 witness: both edges of a developer that occurs twice in the bug's
\* list have been passed; the developer was eligible and is the assignee.
C4_Witness ==
    /\ pc = "for_dev"
    /\ \E i, j \in 1..(devIdx - 1) :
          /\ i < j
          /\ CurrentList[i].developer = CurrentList[j].developer
          /\ CurrentList[i].developer = assignee
          /\ Count(analysedDevelopers, assignee) = 1

\* C5: the assignee a finished bug is emitted with was scored in this bug,
\* no scored candidate has a higher rank, and every candidate scored before
\* it has a strictly lower rank (of equal best ranks the first one wins).
C5_AssigneeIsFirstBest ==
    (AtBugEnd /\ assignee # None) =>
        /\ issue_assignment[Len(issue_assignment)] = <<bug, projectId, assignee>>
        /\ \E i \in 1..Len(scored) :
              /\ scored[i].developer = assignee
              /\ Eq(scored[i].rank, assigneeRank)
              /\ \A j \in 1..Len(scored) : Leq(scored[j].rank, scored[i].rank)
              /\ \A j \in 1..(i - 1) : Less(scored[j].rank, scored[i].rank)

\* C5 witness: a bug is finished whose assignee was followed by a candidate
\* of the same rank.
C5_Witness ==
    /\ AtBugEnd
    /\ assignee # None
    /\ \E i, j \in 1..Len(scored) :
          /\ i < j
          /\ scored[i].developer = assignee
          /\ Eq(scored[j].rank, scored[i].rank)

\* The capacity formula as the specification writes it, over the reals:
\* timeIncrement * timeAvailable * (opened / fixed) - (timeUnavailable + load)
CapacityMargin(cf, timeAvailable, timeUnavailable, load) ==
    Sub(Mul(cf.timeIncrement,
            Mul(Float(timeAvailable), Rat(cf.bugOpenedDays.n, cf.bugFixedDays.n))),
        Float(Add(timeUnavailable, load)))

\* C6 (as claimed): a candidate that is gated is found busy exactly when the
\* capacity formula, evaluated exactly, is not greater than 0.
C6_GateMatchesFormula ==
    IsEvaluated =>
        (candidateBusy <=>
            Leq(CapacityMargin(conf, PyInt(spentTime[dev.developer][1]),
                               PyInt(spentTime[dev.developer][2]), candidateLoad),
                Zero))

\* timeAvailable*openedDays/fixedDays - timeUnavailable <= 0 for developer d
NoCapacity(d) ==
    Leq(Sub(Mul(Float(PyInt(spentTime[d][1])),
                Rat(conf.bugOpenedDays.n, conf.bugFixedDays.n)),
            PyInt(spentTime[d][2])),
        Zero)

\* timeIncrement*(timeAvailable*openedDays/fixedDays) - timeUnavailable <= 0,
\* the quotient being the integer quotient the gate takes
NoCapacityWithIncrement(d) ==
    Leq(Sub(Mul(conf.timeIncrement,
                Float(PyDiv(Mul(PyInt(spentTime[d][1]), conf.bugOpenedDays),
                            conf.bugFixedDays))),
            Float(PyInt(spentTime[d][2]))),
        Zero)

\* C7 (as claimed): no developer with
\* timeAvailable*openedDays/fixedDays - timeUnavailable <= 0 is emitted.
C7_NoCapacityNeverAssigned ==
    \A d \in Emitted : ~NoCapacity(d)

\* C7 (amended): no developer with
\* timeIncrement*(timeAvailable*openedDays/fixedDays) - timeUnavailable <= 0,
\* evaluated as the gate evaluates it, is a bug's provisional assignee or is
\* emitted.
C7_NoCapacityWithIncrementNeverAssigned ==
    \A d \in Emitted \cup ({assignee} \ {None}) : ~NoCapacityWithIncrement(d)

\* C7 witness: a bug is finished with an assignee although another of its
\* candidates, one without capacity, has a higher rank.
C7_Witness ==
    /\ AtBugEnd
    /\ assignee # None
    /\ \E i \in 1..Len(CurrentList) :
          /\ NoCapacityWithIncrement(CurrentList[i].developer)
          /\ CurrentList[i].developer # assignee
          /\ Less(assigneeRank,
                  Rank(conf, bugStatistics[bug],
                       CombinedDetails(atBugStart.developers, CurrentList[i])))

RECURSIVE SumDevAvgTime(_, _)
SumDevAvgTime(seq, d) ==
    IF seq = <<>> THEN Zero
    ELSE Add(IF Head(seq).developer = d THEN Head(seq).devAvgTime ELSE Zero,
             SumDevAvgTime(Tail(seq), d))

RECURSIVE SumBugAvgETA(_, _)
SumBugAvgETA(seq, d) ==
    IF seq = <<>> THEN Zero
    ELSE Add(IF Head(seq).developer = d THEN Head(seq).bugAvgETA ELSE Zero,
             SumBugAvgETA(Tail(seq), d))

C9_FirstEligibleAccepted ==
    ((pc = "for_dev" \/ AtBugEnd) /\ Len(scored) >= 1) =>
        /\ assignee # None
        /\ Len(scored) = 1 => assignee = scored[1].developer
        /\ AtBugEnd => bug \in DOMAIN assignmentResults

NonNegativeCoefficients ==
    /\ conf.coeffAvailability.n >= 0
    /\ conf.coeffCollaborativity.n >= 0
    /\ conf.coeffCompetency.n >= 0
    /\ conf.coeffProductivity.n >= 0
    /\ conf.coeffReliability.n >= 0

\* C9 (amended): with non-negative coefficients (and the non-negative
\* statistics of the inputs), as soon as a bug has a scored candidate it
\* has an assignee, the first scored candidate being accepted, and a
\* finished bug with a scored candidate is emitted.
C9_FirstEligibleAcceptedNonNegative ==
    (NonNegativeCoefficients /\ (pc = "for_dev" \/ AtBugEnd) /\ Len(scored) >= 1) =>
        /\ assignee # None
        /\ Len(scored) = 1 => assignee = scored[1].developer
        /\ AtBugEnd => bug \in DOMAIN assignmentResults

\* C9 witness: a bug whose only eligible candidate came after a busy one is
\* finished and emitted with that candidate.
C9_Witness ==
    /\ AtBugEnd
    /\ NonNegativeCoefficients
    /\ Len(scored) = 1
    /\ CurrentList[1].developer \in developerBusyDict
    /\ issue_assignment[Len(issue_assignment)] = <<bug, projectId, scored[1].developer>>

\* C10: a finished bug all of whose candidates are in the busy set has no
\* assignee, no entry in assignmentResults and no row in issue_assignment,
\* and every developer's load is what it was when the bug began.
C10_AllBusyEndsUnassigned ==
    (AtBugEnd /\ ListDevelopers(bug) \subseteq developerBusyDict) =>
        /\ assignee = None
        /\ bug \notin DOMAIN assignmentResults
        /\ \A i \in 1..Len(issue_assignment) :
               issue_assignment[i][1] # bug /\ issue_assignment[i][3] # None
        /\ \A d \in Devs :
               Eq(TimeOf(developerTimeAssignments, d), TimeOf(atBugStart.time, d))

\* C10 witness: the first bug had candidates, all busy, and ended without a
\* row; the pass is processing the second bug.
C10_Witness ==
    /\ pc = "for_dev"
    /\ bug = 2
    /\ Len(bugAssignments[1]) > 0
    /\ ListDevelopers(1) \subseteq developerBusyDict
    /\ issue_assignment = <<>>

\* C11: the rows of issue_assignment are rows of distinct bugs of the
\* candidate map, each for this project and for a developer of that bug's
\* candidate list.
C11_AtMostOneRowPerBug ==
    \A i, j \in 1..Len(issue_assignment) :
        /\ issue_assignment[i][1] \in DOMAIN bugAssignments
        /\ issue_assignment[i][2] = projectId
        /\ issue_assignment[i][3] \in ListDevelopers(issue_assignment[i][1])
        /\ issue_assignment[i][1] = issue_assignment[j][1] => i = j

\* C11 witness: the pass has returned a row for every bug, two of them for
\* the same developer.
C11_Witness ==
    /\ pc = "done"
    /\ Len(issue_assignment) = NumBugs
    /\ issue_assignment[1][3] = issue_assignment[2][3]

\* The number of values given for the i-th coefficient
NumValues(i) == Len(gridSearchParameters[CoeffNames[i]])

\* C16: the list generateCoefficientList returns has as many vectors as the
\* product of the five sequence lengths, and the vector made of the a-th,
\* b-th, c-th, d-th and e-th value stands at its own position, the one the
\* lexicographic order of (a, b, c, d, e) gives it; its vectors are exactly
\* the combinations of one value per coefficient.
C16_ListIsCartesianProduct ==
    phase = "listed" =>
        LET p == gridSearchParameters
            L == gridSearchList
        IN  /\ Len(L) = NumValues(1) * NumValues(2) * NumValues(3) * NumValues(4)
                            * NumValues(5)
            /\ \A a \in 1..NumValues(1), b \in 1..NumValues(2), c \in 1..NumValues(3),
                  d \in 1..NumValues(4), e \in 1..NumValues(5) :
                   L[((((a - 1) * NumValues(2) + (b - 1)) * NumValues(3) + (c - 1))
                          * NumValues(4) + (d - 1)) * NumValues(5) + e]
                      = Vector(p.coeffAvailability[a], p.coeffCollaborativity[b],
                               p.coeffCompetency[c], p.coeffProductivity[d],
                               p.coeffReliability[e])
            /\ {L[i] : i \in 1..Len(L)}
                  = {Vector(p.coeffAvailability[a], p.coeffCollaborativity[b],
                            p.coeffCompetency[c], p.coeffProductivity[d],
                            p.coeffReliability[e]) :
                        a \in 1..NumValues(1), b \in 1..NumValues(2),
                        c \in 1..NumValues(3), d \in 1..NumValues(4),
                        e \in 1..NumValues(5)}

\* C16 witness: the list of the 32 vectors over the values 0 and 1
C16_Witness ==
    /\ phase = "listed"
    /\ \A i \in 1..5 : gridSearchParameters[CoeffNames[i]] = <<0, 1>>
    /\ Len(gridSearchList) = 32
    /\ gridSearchList[32] = Vector(1, 1, 1, 1, 1)

\* C16 witness of the empty case: one sequence is empty, so is the list
C16_WitnessEmpty ==
    /\ phase = "listed"
    /\ gridSearchParameters.coeffCompetency = <<>>
    /\ gridSearchParameters.coeffAvailability = <<0, 1>>
    /\ gridSearchList = <<>>

\* The evaluations of kind k, in the order they were made
RECURSIVE OfKind(_, _)
OfKind(seq, k) ==
    IF seq = <<>> THEN <<>>
    ELSE (IF Head(seq).kind = k THEN <<Head(seq)>> ELSE <<>>) \o OfKind(Tail(seq), k)

C13_VectorResultIndependentOfEarlierRuns ==
    \A i \in 1..Len(evaluated) :
        (/\ evaluated[i].kind = "search"
         /\ DOMAIN evaluated[1].coefficients # {}
         /\ evaluated[i].coefficients = evaluated[1].coefficients)
            => /\ evaluated[i].rows = evaluated[1].rows
               /\ Eq(evaluated[i].score, evaluated[1].score)

\* C14: a vector whose pass assigns fewer bugs than there are bugs to
\* assign (nA < tA) gets the score 0 from calculateScore whatever the
\* F-measure of its rows, the step that evaluates it leaves bestScore and
\* bestCoefficients as they were, and the search goes on with the
\* remaining vectors.
LastEvaluated == evaluated[Len(evaluated)]

C14_IncompleteVectorScoresZero ==
    [][(/\ phase = "evaluating"
        /\ phase' = "search"
        /\ LastEvaluated'.nA < LastEvaluated'.tA)
            => /\ LastEvaluated'.kind = "search"
               /\ LastEvaluated'.coefficients = coefficients
               /\ Eq(LastEvaluated'.score, Zero)
               /\ bestScore' = bestScore
               /\ bestCoefficients' = bestCoefficients
               /\ gridSearchList' = gridSearchList]_vars

C14_Witness ==
    /\ phase = "search"
    /\ Len(evaluated) > 2
    /\ LastEvaluated.kind = "search"
    /\ LastEvaluated.nA < LastEvaluated.tA
    /\ Less(Zero, LastEvaluated.F)
    /\ Eq(LastEvaluated.score, Zero)
    /\ gridSearchList # <<>>

\* The positions in the sequence evaluated of the vectors the grid search
\* has evaluated, in the order of their evaluation
SearchRuns == {i \in 1..Len(evaluated) : evaluated[i].kind = "search"}

IsMaxRun(i) ==
    /\ i \in SearchRuns
    /\ \A j \in SearchRuns : ~Less(evaluated[i].score, evaluated[j].score)

FirstMaxRun == CHOOSE i \in SearchRuns :
    IsMaxRun(i) /\ \A j \in SearchRuns : IsMaxRun(j) => i <= j

SearchEnded == phase = "ended" /\ runMode = RUN_MODE_TEST /\ SearchRuns # {}

\* C15 (as claimed): when the grid search ends, bestScore is the maximum
\* score over the evaluated vectors and bestCoefficients is the first
\* evaluated vector that attains it.
C15_BestIsFirstMaximum ==
    SearchEnded =>
        /\ Eq(bestScore, evaluated[FirstMaxRun].score)
        /\ bestCoefficients = evaluated[FirstMaxRun].coefficients

\* C15 (amended): when the grid search ends, bestScore is the maximum score
\* over the evaluated vectors; when that maximum is greater than 0,
\* bestCoefficients is the first evaluated vector that attains it; when it
\* is 0, no evaluated vector has replaced the initial best and
\* bestCoefficients is the all-zero vector the search started with.
C15_BestIsFirstPositiveMaximum ==
    SearchEnded =>
        /\ Eq(bestScore, evaluated[FirstMaxRun].score)
        /\ IF Less(Zero, bestScore)
           THEN bestCoefficients = evaluated[FirstMaxRun].coefficients
           ELSE bestCoefficients = ZeroCoefficients

C15_Witness ==
    /\ SearchEnded
    /\ Less(Zero, bestScore)
    /\ \E j \in SearchRuns : j > FirstMaxRun /\ IsMaxRun(j)
    /\ \E j \in SearchRuns : j < FirstMaxRun

\* The rows of a pass as a set of table rows
RowSet(rows) == {rows[i] : i \in 1..Len(rows)}

BaselineStat(a) ==
    [AvgStat(a) EXCEPT !.avgNumAssigned = Rat(5, 1), !.avgReviews = Rat(10, 1)]

ScoreStats == {BaselineStat(a) : a \in 0..MaxStat} \cup {AvgStat(0)}

\* <<numAssigned, reviews>> of the two candidates, over both snapshots:
\* developer 1 with <<5, 2>> and developer 2 with <<10, 10>>, or developer 1
\* with no history and developer 2 as before.
ScoreTotals == {<<<<5, 2>>, <<10, 10>>>>, <<<<0, 0>>, <<10, 10>>>>}

\* The snapshots a developer has rows for in view_assignment
Splits == {"fixed", "open", "both"}
OpenFlags(split) ==
    IF split = "fixed" THEN {0} ELSE IF split = "open" THEN {1} ELSE {0, 1}

\* The part of a counter with the value v that snapshot isOpen holds: all
\* of it when the developer has one snapshot, else one unit in the open-bug
\* snapshot and the rest in the fixed-bug snapshot.
PartOf(v, isOpen, split) ==
    IF split # "both" THEN v
    ELSE IF isOpen = 1 THEN (IF v > 0 THEN 1 ELSE 0)
    ELSE (IF v > 0 THEN v - 1 ELSE 0)

\* A row of view_assignment: the two counters of total, every other counter
\* with the value other, and the resolution time time in the fixed-bug
\* snapshot, time + 1 in the open-bug snapshot of a developer that has both.
ScoreSnapshot(total, other, time, isOpen, split) ==
    LET t == IF split = "both" /\ isOpen = 1 THEN time + 1 ELSE time
    IN  [numAssigned |-> PyInt(PartOf(total[1], isOpen, split)),
         reviews |-> PyInt(PartOf(total[2], isOpen, split)),
         numAttachment |-> PyInt(PartOf(other, isOpen, split)),
         numComment |-> PyInt(PartOf(other, isOpen, split)),
         sizeAttachment |-> PyInt(PartOf(other, isOpen, split)),
         devAvgTime |-> Rat(t, 1),
         bugAvgETA |-> Rat(t + 1, 1)]

\* handleResult: the developers map of these rows
ScoreDevelopers(totals, other, time, split) ==
    [k \in {DevKey(d, 1, 1, o) : d \in 1..2, o \in OpenFlags(split)} |->
        ScoreSnapshot(totals[k[1]], other, time, k[4], split)]

\* The candidate list of every bug: one edge per row, developer first
\* listed first
ScoreList(first, split) ==
    LET second == 3 - first
    IN  IF split = "both"
        THEN <<Edge(first, 0), Edge(first, 1), Edge(second, 1), Edge(second, 0)>>
        ELSE LET o == IF split = "open" THEN 1 ELSE 0
             IN  <<Edge(first, o), Edge(second, o)>>

\* The weights: the defaults, equal weights in the configuration, and the
\* vector {1,1,1,1,1} given as differentCoeff
ScoreConfs ==
    {Conf(DefaultTimeIncrement, DefaultCoefficients),
     Conf(DefaultTimeIncrement, <<100, 100, 100, 100, 100>>),
     ConfWith(Conf(DefaultTimeIncrement, DefaultCoefficients), Vector(1, 1, 1, 1, 1))}

ScoreInit ==
    /\ conf \in ScoreConfs
    /\ \E a \in 1..MaxTime : spentTime = [d \in Devs |-> <<a, 0>>]
    /\ \E first \in 1..2, split \in Splits :
          /\ bugAssignments = [b \in Bugs |-> ScoreList(first, split)]
          /\ \E totals \in ScoreTotals, other \in {0, 1, MaxStat + 1}, time \in {0, 2} :
                developers = ScoreDevelopers(totals, other, time, split)
    /\ \E stat \in ScoreStats : bugStatistics = [b \in Bugs |-> stat]
    /\ pc = "for_bug"
    /\ bug = 0
    /\ devIdx = 0
    /\ assignee = None
    /\ assigneeTime = Zero
    /\ assigneeRank = AssigneeRankAtStart
    /\ assigneeNumAssigned = PyInt(InitialAssigneeNumAssigned)
    /\ analysedDevelopers = <<>>
    /\ developerTimeAssignments = <<>>
    /\ developerBusyDict = {}
    /\ assignmentResults = <<>>
    /\ issue_assignment = <<>>
    /\ developer = None
    /\ developerBusy = FALSE
    /\ rank = Zero
    /\ timeAssignments = Zero
    /\ scored = <<>>
    /\ committed = <<>>
    /\ atBugStart = [time |-> <<>>, developers |-> developers, busy |-> {}]
    /\ NoCaller

ScoreSpec == ScoreInit /\ [][Next]_vars

\* The quotient a/b of the two numbers as reals, or fallback when b is 0
Quotient(a, b, fallback) ==
    IF b.n = 0 THEN fallback ELSE Rat(a.n * b.d, a.d * b.n)

\* The five sub-scores as the Score Function states them
StatedAvailability(st, d) ==
    Quotient(st.avgNumAssigned, d.numAssigned, Add(st.avgNumAssigned, One))
StatedCollaborativity(st, d) ==
    Add(Quotient(d.numAttachment, st.avgNumAttachment, d.numAttachment),
        Quotient(d.numComment, st.avgNumComment, d.numComment))
StatedCompetency(st, d) ==
    Add(Quotient(d.numAssigned, st.avgNumAssigned, d.numAssigned),
        Quotient(d.reviews, st.avgReviews, d.reviews))
StatedProductivity(st, d) ==
    Mul(Add(Mul(Quotient(d.reviews, st.avgReviews, Zero),
                Mul(Quotient(d.sizeAttachment, st.avgSizeAttachment, d.sizeAttachment),
                    Quotient(d.numAttachment, st.avgNumAttachment, d.numAttachment))),
            Quotient(d.numComment, st.avgNumComment, d.numComment)),
        Quotient(st.avgDevAvgTime, d.devAvgTime, Add(st.avgDevAvgTime, One)))
StatedReliability(st, d) ==
    Mul(Quotient(d.numAssigned, st.avgNumAssigned, d.numAssigned),
        Quotient(st.avgDevAvgTime, d.devAvgTime, Add(st.avgDevAvgTime, One)))

StatedRank(cf, st, d) ==
    Add(Add(Add(Add(Mul(StatedAvailability(st, d), cf.coeffAvailability),
                    Mul(StatedCollaborativity(st, d), cf.coeffCollaborativity)),
                Mul(StatedCompetency(st, d), cf.coeffCompetency)),
            Mul(StatedProductivity(st, d), cf.coeffProductivity)),
        Mul(StatedReliability(st, d), cf.coeffReliability))

DetailsAtBugStart(d) == CombinedDetails(atBugStart.developers, Edge(d, 0))

Held(f, isOpen) ==
    LET k == DevKey(dev.developer, dev.component, dev.priority, isOpen)
    IN  IF k \in DOMAIN developers THEN developers[k][f] ELSE Zero

HasFixedSnapshot ==
    DevKey(dev.developer, dev.component, dev.priority, 0) \in DOMAIN developers

\* C19: the combined snapshot a candidate is scored with has, for reviews,
\* numAssigned, numAttachment, numComment and sizeAttachment, the sum of
\* the fixed-bug and the open-bug value (a missing snapshot counting as 0),
\* and for devAvgTime and bugAvgETA the fixed-bug value when the developer
\* has a fixed-bug snapshot for the component and priority, the open-bug
\* value otherwise.
C19_CombinedSnapshot ==
    (IsEvaluated /\ ~candidateBusy) =>
        /\ \A f \in {"reviews", "numAssigned", "numAttachment", "numComment",
                     "sizeAttachment"} :
                Eq(details[f], Add(Held(f, 0), Held(f, 1)))
        /\ \A f \in {"devAvgTime", "bugAvgETA"} :
                Eq(details[f], IF HasFixedSnapshot THEN Held(f, 0) ELSE Held(f, 1))
        /\ ScoredEntry.devAvgTime = details.devAvgTime
        /\ ScoredEntry.bugAvgETA = details.bugAvgETA

\* A candidate with both snapshots, whose times differ, is about to be scored
C19_Witness ==
    /\ IsEvaluated
    /\ ~candidateBusy
    /\ HasFixedSnapshot
    /\ DevKey(dev.developer, dev.component, dev.priority, 1) \in DOMAIN developers
    /\ ~Eq(Held("devAvgTime", 0), Held("devAvgTime", 1))
    /\ ~IsZero(Held("reviews", 0))
    /\ ~IsZero(Held("reviews", 1))

\* A candidate with an open-bug snapshot only is about to be scored
C19_WitnessOpenOnly ==
    /\ IsEvaluated
    /\ ~candidateBusy
    /\ ~HasFixedSnapshot
    /\ ~IsZero(Held("devAvgTime", 1))

\* The five weights of the configuration, in hundredths
WeightsAre(c) ==
    \A i \in 1..5 : Eq(conf[CoeffNames[i]], Rat(c[i], 100))

\* The bug just finished had the baseline avgNumAssigned 5 and avgReviews
\* 10 and, when it began, candidate 1 with numAssigned 5 and reviews 2,
\* candidate 2 with numAssigned 10 and reviews 10 and every other field of
\* the two alike; both passed the gate.
TwoCandidateCase ==
    /\ AtBugEnd
    /\ Eq(bugStatistics[bug].avgNumAssigned, PyInt(5))
    /\ Eq(bugStatistics[bug].avgReviews, PyInt(10))
    /\ Eq(DetailsAtBugStart(1).numAssigned, PyInt(5))
    /\ Eq(DetailsAtBugStart(1).reviews, PyInt(2))
    /\ Eq(DetailsAtBugStart(2).numAssigned, PyInt(10))
    /\ Eq(DetailsAtBugStart(2).reviews, PyInt(10))
    /\ \A f \in {"numAttachment", "numComment", "sizeAttachment", "devAvgTime",
                 "bugAvgETA"} :
            Eq(DetailsAtBugStart(1)[f], DetailsAtBugStart(2)[f])
    /\ {scored[i].developer : i \in 1..Len(scored)} = {1, 2}
    /\ WeightsAre(DefaultCoefficients) \/ WeightsAre(<<100, 100, 100, 100, 100>>)

\* C20: a bug with baseline avgNumAssigned 5 and avgReviews 10 and the two
\* non-busy candidates 1 (numAssigned 5, reviews 2) and 2 (numAssigned 10,
\* reviews 10), alike in every other field, is assigned to candidate 2,
\* with the default weights and with equal weights, whichever is listed
\* first.
C20_HigherCompetencyWins ==
    TwoCandidateCase =>
        /\ assignee = 2
        /\ issue_assignment[Len(issue_assignment)] = AssignmentRow(bug, 2)
        /\ Less(scored[IF scored[1].developer = 1 THEN 1 ELSE 2].rank, assigneeRank)

\* Candidate 1 is listed first and is displaced, with equal weights
C20_Witness ==
    /\ TwoCandidateCase
    /\ scored[1].developer = 1
    /\ WeightsAre(<<100, 100, 100, 100, 100>>)
    /\ assignee = 2

\* Candidate 2 is listed first and keeps the bug, with the default weights
C20_WitnessListedFirst ==
    /\ TwoCandidateCase
    /\ scored[1].developer = 2
    /\ WeightsAre(DefaultCoefficients)
    /\ assignee = 2

\* ------------------------------------------- the functions of common_utils
\* One call of a utility function with arguments of the kinds its callers
\* and the unit test pass.

\* The variables of handleResult while neither it nor a pass runs
NoSearch ==
    /\ phase = "none"
    /\ runMode = RUN_MODE_ANALYSIS
    /\ gridSearchParameters = [c \in {} |-> <<>>]
    /\ gridSearchList = <<>>
    /\ coefficients = NoCoefficients
    /\ bestScore = Zero
    /\ bestCoefficients = ZeroCoefficients
    /\ stored = {}
    /\ actual = [b \in {} |-> None]
    /\ loaded = [developers |-> developers, conf |-> conf]
    /\ evaluated = <<>>

\* The operands: ints, floats (halves) and None
Operands ==
    {PyInt(k) : k \in (-MaxOperand)..MaxOperand}
        \cup {Rat(k, 2) : k \in (-MaxOperand)..MaxOperand} \cup {Null}

SafeDivCalls ==
    {[fn |-> "safeDiv", op1 |-> a, op2 |-> b, defaultResult |-> c] :
        a \in Operands, b \in Operands, c \in Operands}

\* "utils.safeDiv(op1, op2, defaultResult)"
CallSafeDiv ==
    /\ call.fn = "safeDiv"
    /\ outcome.fn = "none"
    /\ LET o == SafeDivOutcome(call.op1, call.op2, call.defaultResult)
       IN  outcome' = [fn |-> "safeDiv", raised |-> o.raised, value |-> o.value]
    /\ UNCHANGED <<conf, spentTime, bugAssignments, bugStatistics, developers,
                   passVars, outer, call, cache, service>>

\* The triples view_reality_check may deliver
MeasureCalls ==
    {[fn |-> "getScore", tP |-> a, fP |-> b, fN |-> c] :
        a \in 0..(MaxOperand + 1), b \in 0..(MaxOperand + 1), c \in 0..(MaxOperand + 1)}

\* getScore in test mode, from "(tP, fP, fN) = realityCheckResult.fetchone()"
CallMeasures ==
    /\ call.fn = "getScore"
    /\ outcome.fn = "none"
    /\ LET m == Measures(call.tP, call.fP, call.fN)
       IN  outcome' = [fn |-> "getScore", P |-> m.P, R |-> m.R, F |-> m.F]
    /\ UNCHANGED <<conf, spentTime, bugAssignments, bugStatistics, developers,
                   passVars, outer, call, cache, service>>

\* The developers dicts, developer keys and field lists of the calls
CallDevs ==
    {[k \in {} |-> Zero],
     [k \in {DevKey(1, 1, 1, 0)} |-> Snapshot(1, 0)],
     [k \in {DevKey(1, 1, 1, 0), DevKey(1, 1, 1, 1)} |-> Snapshot(MaxStat, k[4])]}
CallKeys == {DevKey(1, 1, 1, 0), DevKey(1, 1, 1, 1), DevKey(2, 1, 1, 1)}
CallFields == {devFields, {"numAssigned", "reviews"}, {"reviews"}}

SafeGetDeveloperCalls ==
    {[fn |-> "safeGetDeveloper", devs |-> d, dev |-> k, keys |-> f] :
        d \in CallDevs, k \in CallKeys, f \in CallFields}

SafeSetDeveloperCalls ==
    {[fn |-> "safeSetDeveloper", devs |-> d, dev |-> k, keys |-> f, key |-> x,
      value |-> v] :
        d \in CallDevs, k \in CallKeys, f \in CallFields,
        x \in {"numAssigned", "devAvgTime"}, v \in {Zero, PyInt(MaxStat + 1)}}

\* "utils.safeGetDeveloper(devs, dev, keys)"
CallSafeGetDeveloper ==
    /\ call.fn = "safeGetDeveloper"
    /\ outcome.fn = "none"
    /\ outcome' = [fn |-> "safeGetDeveloper",
                   returned |-> SafeGetDeveloperCall(call.devs, call.dev, call.keys),
                   devs |-> call.devs]
    /\ UNCHANGED <<conf, spentTime, bugAssignments, bugStatistics, developers,
                   passVars, outer, call, cache, service>>

\* "utils.safeSetDeveloper(devs, dev, key, value, keys)"
CallSafeSetDeveloper ==
    /\ call.fn = "safeSetDeveloper"
    /\ outcome.fn = "none"
    /\ LET o == SafeSetDeveloperCall(call.devs, call.dev, call.key, call.value,
                                     call.keys)
       IN  outcome' = [fn |-> "safeSetDeveloper", returned |-> o.returned,
                       devs |-> o.devs]
    /\ UNCHANGED <<conf, spentTime, bugAssignments, bugStatistics, developers,
                   passVars, outer, call, cache, service>>

\* The string left as it is
FlipNothing(s) == s

\* s[::-1]
Flip(s) == [i \in 1..Len(s) |-> s[Len(s) + 1 - i]]

\* getUrlByRunMode: the URL, flipped in test mode
getUrlByRunMode(url, mode) == IF mode = RUN_MODE_TEST THEN Flip(url) ELSE url

\* The URLs: every string of at most MaxLen characters
Characters == {"a", "b", "/"}

UrlCalls ==
    {[fn |-> "getUrlByRunMode", url |-> u, runMode |-> m] :
        u \in UNION {[1..n -> Characters] : n \in 0..MaxLen},
        m \in {RUN_MODE_ANALYSIS, RUN_MODE_TEST}}

\* "utils.getUrlByRunMode(url, runMode)", and the same once more on what
\* it returned
CallGetUrlByRunMode ==
    /\ call.fn = "getUrlByRunMode"
    /\ outcome.fn = "none"
    /\ LET returned == getUrlByRunMode(call.url, call.runMode)
       IN  outcome' = [fn |-> "getUrlByRunMode", returned |-> returned,
                       again |-> getUrlByRunMode(returned, call.runMode)]
    /\ UNCHANGED <<conf, spentTime, bugAssignments, bugStatistics, developers,
                   passVars, outer, call, cache, service>>

UtilsInit ==
    /\ NoPass
    /\ NoSearch
    /\ call \in SafeDivCalls \cup MeasureCalls \cup SafeGetDeveloperCalls
                    \cup SafeSetDeveloperCalls \cup UrlCalls
    /\ outcome = [fn |-> "none"]
    /\ NoCache
    /\ NoService

UtilsNext ==
    \/ CallSafeDiv
    \/ CallMeasures
    \/ CallSafeGetDeveloper
    \/ CallSafeSetDeveloper
    \/ CallGetUrlByRunMode

UtilsSpec == UtilsInit /\ [][UtilsNext]_vars

\* The integer q is the floor of a/b (b # 0)
IsFloorOf(q, a, b) ==
    IF b > 0 THEN q * b <= a /\ a < (q + 1) * b
    ELSE q * b >= a /\ a > (q + 1) * b

\* The number v is the quotient of the numbers x and y (y # 0)
IsQuotientOf(v, x, y) == v.n * (x.d * y.n) = v.d * (x.n * y.d)

IsNumber(x) == ~IsNull(x)

\* C21 (as claimed): safeDiv never raises, safeDiv(x, 0, d) returns d and
\* safeDiv(x, y, d) returns the quotient x/y when y is not 0.
C21_SafeDivReturnsQuotient ==
    outcome.fn = "safeDiv" =>
        /\ ~outcome.raised
        /\ (IsNumber(call.op2) /\ IsZero(call.op2))
                => outcome.value = call.defaultResult
        /\ (IsNumber(call.op1) /\ IsNumber(call.op2) /\ ~IsZero(call.op2))
                => IsQuotientOf(outcome.value, call.op1, call.op2)

\* C21 (amended): safeDiv never raises; it returns d when y is 0 or an
\* operand is None; otherwise it returns the value of Python 2's x/y: the
\* floor of the quotient, an int, when x and y are both ints, and the
\* quotient itself when one of them is a float.
C21_SafeDivReturnsPythonQuotient ==
    outcome.fn = "safeDiv" =>
        /\ ~outcome.raised
        /\ (IsNull(call.op1) \/ IsNull(call.op2) \/ IsZero(call.op2))
                => outcome.value = call.defaultResult
        /\ (IsNumber(call.op1) /\ IsNumber(call.op2) /\ ~IsZero(call.op2))
                => IF call.op1.int /\ call.op2.int
                   THEN /\ outcome.value.int
                        /\ outcome.value.d = 1
                        /\ IsFloorOf(outcome.value.n, call.op1.n, call.op2.n)
                   ELSE /\ ~outcome.value.int
                        /\ IsQuotientOf(outcome.value, call.op1, call.op2)

\* Two ints whose quotient is not an int, the divisor negative
C21_Witness ==
    /\ outcome.fn = "safeDiv"
    /\ call.op1.int /\ call.op2.int
    /\ call.op2.n < 0
    /\ ~IsQuotientOf(outcome.value, call.op1, call.op2)
    /\ outcome.value # call.defaultResult

\* None divided by a number that is not 0
C21_WitnessNone ==
    /\ outcome.fn = "safeDiv"
    /\ IsNull(call.op1)
    /\ IsNumber(call.op2) /\ ~IsZero(call.op2)
    /\ outcome.value = call.defaultResult

\* a/b as a number, or 0 when b is 0 (a, b naturals)
RatioOrZero(a, b) == IF b = 0 THEN Zero ELSE Rat(a, b)

\* C22: in test mode getScore computes from the triple (tP, fP, fN)
\* P = tP/(tP+fN), R = tP/(tP+fP) and F = 2*P*R/(P+R), each of them 0 when
\* its denominator is 0; with tP = 0 all three are 0.
C22_MeasuresOfTriple ==
    outcome.fn = "getScore" =>
        LET P == RatioOrZero(call.tP, call.tP + call.fN)
            R == RatioOrZero(call.tP, call.tP + call.fP)
        IN  /\ Eq(outcome.P, P)
            /\ Eq(outcome.R, R)
            /\ IF IsZero(Add(P, R)) THEN IsZero(outcome.F)
               ELSE IsQuotientOf(outcome.F, Mul(Mul(PyInt(2), P), R), Add(P, R))
            /\ call.tP = 0 => IsZero(outcome.P) /\ IsZero(outcome.R) /\ IsZero(outcome.F)

\* A triple with tP > 0 and fP # fN
C22_Witness ==
    /\ outcome.fn = "getScore"
    /\ call.tP > 0
    /\ call.fP > call.fN
    /\ Less(outcome.R, outcome.P)
    /\ Less(outcome.R, outcome.F) /\ Less(outcome.F, outcome.P)

\* The triple (0, 0, 0): every denominator is 0
C22_WitnessAllZero ==
    /\ outcome.fn = "getScore"
    /\ call.tP = 0 /\ call.fP = 0 /\ call.fN = 0
    /\ IsZero(outcome.F)

\* The record safeGetDeveloper is to return for the call: the requested
\* fields of the entry, or zeros
RequestedRecord ==
    [f \in call.keys |-> IF call.dev \in DOMAIN call.devs
                         THEN call.devs[call.dev][f] ELSE Zero]

WasPresent == IF call.dev \in DOMAIN call.devs THEN 1 ELSE 0

C30_WitnessAbsent ==
    /\ outcome.fn = "safeGetDeveloper"
    /\ call.dev \notin DOMAIN call.devs
    /\ call.devs # <<>>
    /\ outcome.returned[2] = 0

\* An absent key is set
C30_WitnessCreated ==
    /\ outcome.fn = "safeSetDeveloper"
    /\ call.dev \notin DOMAIN call.devs
    /\ call.dev \in DOMAIN outcome.devs
    /\ outcome.returned = 0

\* Precision, recall and their harmonic mean as they are usually defined:
\* tP/(tP+fP) and tP/(tP+fN), 0 for a quotient by 0
ConventionalMeasures(tP, fP, fN) ==
    LET P == safeDiv(PyInt(tP), Float(PyInt(tP + fP)), Zero)
        R == safeDiv(PyInt(tP), Float(PyInt(tP + fN)), Zero)
    IN  [P |-> P, R |-> R,
         F |-> safeDiv(Mul(Mul(PyInt(2), P), R), Add(P, R), Zero)]

\* C36: for every triple (tP, fP, fN) the F that getScore computes, with
\* tP+fN under P and tP+fP under R, is the F of the conventional
\* denominators: the two measures have changed places and F is the same.
C36_FMeasureSymmetric ==
    outcome.fn = "getScore" =>
        LET m == ConventionalMeasures(call.tP, call.fP, call.fN)
        IN  /\ Eq(outcome.F, m.F)
            /\ Eq(outcome.P, m.R)
            /\ Eq(outcome.R, m.P)

\* a triple whose two measures differ has been scored above 0
C36_Witness ==
    /\ outcome.fn = "getScore"
    /\ call.tP > 0
    /\ call.fP # call.fN
    /\ ~Eq(outcome.P, outcome.R)
    /\ Less(Zero, outcome.F)

\* C31: getUrlByRunMode returns the URL unchanged in analysis mode and the
\* URL with its characters in reverse order in test mode; applied to its
\* own result in test mode it gives the original URL back.
C31_UrlFlippedInTestMode ==
    outcome.fn = "getUrlByRunMode" =>
        IF call.runMode = RUN_MODE_ANALYSIS
        THEN outcome.returned = call.url
        ELSE /\ Len(outcome.returned) = Len(call.url)
             /\ \A i \in 1..Len(call.url) :
                    outcome.returned[i] = call.url[Len(call.url) + 1 - i]
             /\ outcome.again = call.url

\* a URL that is no palindrome has been flipped in test mode
C31_Witness ==
    /\ outcome.fn = "getUrlByRunMode"
    /\ call.runMode = RUN_MODE_TEST
    /\ Len(call.url) = MaxLen
    /\ outcome.returned # call.url

\* a URL has come back unchanged in analysis mode
C31_WitnessAnalysis ==
    /\ outcome.fn = "getUrlByRunMode"
    /\ call.runMode = RUN_MODE_ANALYSIS
    /\ call.url # <<>>

\* --------------------------------------------- the pass on defective input
\* getResult with a bugFixedDays of 0, with averages and developer values
\* that are NULL in the database, and for a project without candidate rows.

\* The exception leaves getResult: the loop position stays where it was
Propagate(exception, where) ==
    /\ pc' = "raised"
    /\ outcome' = [fn |-> "getResult", raised |-> exception, at |-> where]
    /\ analysedDevelopers' = Append(analysedDevelopers, dev.developer)
    /\ developer' = dev.developer
    /\ UNCHANGED <<conf, spentTime, bugAssignments, bugStatistics, outer, call,
                   cache, service, bug, devIdx, assignmentResults, issue_assignment, developerBusy,
                   rank, timeAssignments, scored, committed, atBugStart>>

\* 787-791: a sum of the combined snapshot raises
RaiseInDetails ==
    /\ IsEvaluated
    /\ DetailsRaise(developers, dev)
    /\ Propagate("TypeError", "details")
    /\ UNCHANGED <<developers, assigneeVars, developerTimeAssignments,
                   developerBusyDict>>

\* 809: the quotient of the capacity gate raises
RaiseInGate ==
    /\ IsEvaluated
    /\ ~DetailsRaise(developers, dev)
    /\ GateException(conf) # "none"
    /\ Propagate(GateException(conf), "gate")
    /\ UNCHANGED <<developers, assigneeVars, developerTimeAssignments,
                   developerBusyDict>>

\* 813-832: an argument of a safeDiv call raises
RaiseInScore ==
    /\ IsGated
    /\ ~candidateBusy
    /\ ScoreRaises(bugStatistics[bug])
    /\ Propagate("TypeError", "score")
    /\ UNCHANGED <<developers, assigneeVars, developerTimeAssignments,
                   developerBusyDict>>

\* 861: "timeAssignments+assigneeTime" raises for a devAvgTime of None,
\* after the previous assignee was displaced and numAssigned was written
RaiseInAccept ==
    /\ IsGated
    /\ ~candidateBusy
    /\ ~ScoreRaises(bugStatistics[bug])
    /\ IsBetter(candidateRank, assigneeRank)
    /\ IsNull(details.devAvgTime)
    /\ Propagate("TypeError", "accept")
    /\ developerBusyDict' = IF assignee # None THEN developerBusyDict \ {assignee}
                            ELSE developerBusyDict
    /\ developerTimeAssignments' =
           Displace(developerTimeAssignments, assignee, assigneeTime)
    /\ assignee' = dev.developer
    /\ assigneeRank' = candidateRank
    /\ assigneeNumAssigned' = Add(details.numAssignedOpen, One)
    /\ developers' = safeSetDeveloper(developers,
                         DevKey(dev.developer, dev.component, dev.priority, 1),
                         "numAssigned", Add(details.numAssignedOpen, One))
    /\ assigneeTime' = details.devAvgTime

\* The configuration with issueAnalyzerBugFixedDays = days
ConfWithFixedDays(cf, days) == [cf EXCEPT !.bugFixedDays = PyInt(days)]

\* The statistics row with the average named f NULL
StatWithNull(stat, f) == [stat EXCEPT ![f] = Null]

\* The developers map with the field f of every snapshot of developer d NULL
DevelopersWithNull(devs, d, f) ==
    [k \in DOMAIN devs |-> IF k[1] = d THEN [devs[k] EXCEPT ![f] = Null] ELSE devs[k]]

AverageNames == {"avgNumAssigned", "avgDevAvgTime", "avgNumComment",
                 "avgNumAttachment", "avgReviews", "avgSizeAttachment"}

\* The statistics rows: sound, all zero, or with one NULL average
ErrorStats ==
    {AvgStat(1), AvgStat(0)} \cup {StatWithNull(AvgStat(1), f) : f \in AverageNames}

\* The developers maps of a candidate map: sound, or with a NULL counter
\* or a NULL average time for developer 2
ErrorDevelopers(lists) ==
    LET sound == {LoadDevelopers(lists, level) : level \in LevelPatterns}
    IN  sound \cup {DevelopersWithNull(devs, 2, f) :
                        devs \in sound, f \in {"numAssigned", "devAvgTime"}}

ErrorInit ==
    /\ \E days \in {0, BugFixedDays} :
          conf = ConfWithFixedDays(Conf(DefaultTimeIncrement, DefaultCoefficients), days)
    /\ spentTime \in SearchSpentTimes
    /\ \/ /\ \E list \in CandidateLists : bugAssignments = [b \in Bugs |-> list]
          /\ \E stat \in ErrorStats : bugStatistics = [b \in Bugs |-> stat]
          /\ developers \in ErrorDevelopers(bugAssignments)
       \/ /\ bugAssignments = <<>>
          /\ bugStatistics = <<>>
          /\ developers = <<>>
    /\ pc = "for_bug"
    /\ bug = 0
    /\ devIdx = 0
    /\ assignee = None
    /\ assigneeTime = Zero
    /\ assigneeRank = AssigneeRankAtStart
    /\ assigneeNumAssigned = PyInt(InitialAssigneeNumAssigned)
    /\ analysedDevelopers = <<>>
    /\ developerTimeAssignments = <<>>
    /\ developerBusyDict = {}
    /\ assignmentResults = <<>>
    /\ issue_assignment = <<>>
    /\ developer = None
    /\ developerBusy = FALSE
    /\ rank = Zero
    /\ timeAssignments = Zero
    /\ scored = <<>>
    /\ committed = <<>>
    /\ atBugStart = [time |-> <<>>, developers |-> developers, busy |-> {}]
    /\ NoCaller

ErrorNext ==
    \/ Next
    \/ RaiseInDetails
    \/ RaiseInGate
    \/ RaiseInScore
    \/ RaiseInAccept

ErrorSpec == ErrorInit /\ [][ErrorNext]_vars

\* C23 (as claimed): with bugFixedDays configured as 0 the run aborts with
\* an error: getResult never returns an assignment list, and no developer
\* is marked busy or scored on the strength of a substituted quotient.
C23_ZeroFixedDaysAborts ==
    IsZero(conf.bugFixedDays) =>
        /\ pc # "done"
        /\ developerBusyDict = {}
        /\ scored = <<>>
        /\ issue_assignment = <<>>

\* C24 (as claimed): when an average of the baseline or a value of a
\* developer snapshot is zero or NULL, getResult substitutes the
\* safe-division defaults and goes on: no exception raised while a
\* candidate's combined snapshot or rank is computed leaves the pass.
C24_NoFailureLeavesScoring ==
    pc = "raised" => outcome.at \notin {"details", "score"}

\* ------------------------------------------------------------ issue_cache
\* The cache of scratched results (codeface/issueanalyzer/issue_cache.py).
\* A string is the sequence of its tokens: a name, or one of the characters
\* "/" and "\n".  A path is such a string, so joining, slicing, splitting
\* and reading lines are computed as the code computes them.  The file
\* system is the pair of `files` (absolute path -> content) and `dirs` (the
\* absolute paths of the directories that exist).

\* common_utils.py: the cache parameters
CACHE_INDEX_TYPE_ANALYSIS == 0
CACHE_INDEX_TYPE_TEST == 1
CACHE_ANALYSIS_INDEX_FILE == <<"issueAnalyzerAnalysisIndex">>
CACHE_TEST_INDEX_FILE == <<"issueAnalyzerTestIndex">>

\* common_utils.py: the keys of the six result sets
KEY_ITEMS_BUGS == "bugs"
KEY_ITEMS_DEVELOPERS == "developers"
KEY_ITEMS_ATTACHMENTS == "attachments"
KEY_ITEMS_COMMENTS == "comments"
KEY_ITEMS_HISTORY == "history"
KEY_ITEMS_RELATIONS == "relations"

\* The six result sets in the order storeOnCache writes them and
\* getFromCache reads them, and the attribute that holds each
Keys ==
    <<KEY_ITEMS_BUGS, KEY_ITEMS_DEVELOPERS, KEY_ITEMS_ATTACHMENTS,
      KEY_ITEMS_COMMENTS, KEY_ITEMS_HISTORY, KEY_ITEMS_RELATIONS>>

ResultNames ==
    <<"bugResult", "devResult", "attachmentResult", "commentResult",
      "historyResult", "relationResult">>

\* The empty string
NoPath == <<>>

\* The position of the first ch in s, 0 when there is none
Find(s, ch) ==
    IF \E i \in 1..Len(s) : s[i] = ch
    THEN CHOOSE i \in 1..Len(s) : s[i] = ch /\ \A j \in 1..(i - 1) : s[j] # ch
    ELSE 0

\* s[n:] of Python for a 0-based n
From(s, n) == SubSeq(s, n + 1, Len(s))

\* s.split(sep)
RECURSIVE split(_, _)
split(s, sep) ==
    LET n == Find(s, sep)
    IN  IF n = 0 THEN <<s>>
        ELSE <<SubSeq(s, 1, n - 1)>> \o split(From(s, n), sep)

\* The line as it was read, terminator included
rstripNothing(line, ch) == line

\* line.rstrip(ch)
RECURSIVE rstrip(_, _)
rstrip(line, ch) ==
    IF line # <<>> /\ line[Len(line)] = ch
    THEN rstrip(SubSeq(line, 1, Len(line) - 1), ch)
    ELSE line

\* Iterating over a text file: each line with its terminator
RECURSIVE readlines(_)
readlines(text) ==
    LET n == Find(text, "\n")
    IN  IF text = <<>> THEN <<>>
        ELSE IF n = 0 THEN <<text>>
        ELSE <<SubSeq(text, 1, n)>> \o readlines(From(text, n))

\* The working directory of the process
Cwd == <<"/", "home">>

\* os.path.abspath, os.path.join and os.path.dirname on paths without
\* "." and ".." components
abspath(path) ==
    IF path # <<>> /\ path[1] = "/" THEN path ELSE Cwd \o <<"/">> \o path

join(a, b) == a \o <<"/">> \o b

dirname(path) ==
    LET seps == {i \in 1..Len(path) : path[i] = "/"}
    IN  IF seps = {} THEN <<>>
        ELSE SubSeq(path, 1, (CHOOSE i \in seps : \A j \in seps : j <= i) - 1)

\* folder is a proper ancestor of path (both absolute)
IsUnder(path, folder) ==
    /\ Len(path) > Len(folder) + 1
    /\ SubSeq(path, 1, Len(folder) + 1) = folder \o <<"/">>

\* A file system
FileSystem(f, d) == [files |-> f, dirs |-> d]

\* os.path.isfile and os.path.exists
isfile(fs, path) == abspath(path) \in DOMAIN fs.files

exists(fs, path) ==
    abspath(path) \in DOMAIN fs.files \cup fs.dirs

\* os.makedirs: the directory with every missing ancestor
makedirs(fs, path) ==
    LET p == abspath(path)
    IN  FileSystem(fs.files,
                   fs.dirs \cup {SubSeq(p, 1, 2 * k) : k \in 1..(Len(p) \div 2)})

\* open(path, 'w+') followed by the writes: the file holds content alone
write(fs, path, content) ==
    LET p == abspath(path)
    IN  FileSystem([q \in DOMAIN fs.files \cup {p} |->
                       IF q = p THEN content ELSE fs.files[q]],
                   fs.dirs)

\* os.remove, its failure on a missing file swallowed (delete_file)
delete_file(fs, path) ==
    LET p == abspath(path)
    IN  FileSystem([q \in DOMAIN fs.files \ {p} |-> fs.files[q]], fs.dirs)

\* The number of files os.walk(folder) meets
walk(fs, folder) ==
    Cardinality({q \in DOMAIN fs.files : IsUnder(q, abspath(folder))})

\* shutil.rmtree of a folder that holds no file
rmtree(fs, folder) ==
    LET p == abspath(folder)
    IN  FileSystem(fs.files, {d \in fs.dirs : d # p /\ ~IsUnder(d, p)})

\* os.listdir
listdir(fs, directory) ==
    {q \in DOMAIN fs.files \cup fs.dirs : dirname(q) = abspath(directory)}

\* The directory left in place
rmdirNever(fs, directory) == fs

\* os.rmdir of an empty directory
rmdir(fs, directory) == FileSystem(fs.files, fs.dirs \ {abspath(directory)})

\* pickle.dump and pickle.load: the file holds a pickle of the object
dump(obj) == [pickle |-> obj]

load(content) == content.pickle

\* The source URL of a result set as the unit test gives it
SourceUrl(key) == <<"bugzilla.url", "/", key>>

\* A digest that is the same for every URL
hexdigestOfNothing(url) == <<"0a1b", "2c3d", "e001">>

\* hashlib.sha256(url).hexdigest() cut into h[:4], h[4:8] and h[8:]: one
\* digest per URL, some of them with the leading digits in common
hexdigest(url) ==
    LET flipped == url[1] # "bugzilla.url"
        name == IF flipped THEN url[1] ELSE url[3]
    IN  CASE ~flipped /\ name = KEY_ITEMS_BUGS -> <<"0a1b", "2c3d", "e001">>
          [] ~flipped /\ name = KEY_ITEMS_DEVELOPERS -> <<"0a1b", "2c3d", "e002">>
          [] ~flipped /\ name = KEY_ITEMS_ATTACHMENTS -> <<"0a1b", "77f0", "e003">>
          [] ~flipped /\ name = KEY_ITEMS_COMMENTS -> <<"5e6f", "2c3d", "e004">>
          [] ~flipped /\ name = KEY_ITEMS_HISTORY -> <<"5e6f", "2c3d", "e005">>
          [] ~flipped /\ name = KEY_ITEMS_RELATIONS -> <<"91aa", "0000", "e006">>
          [] flipped /\ name = KEY_ITEMS_BUGS -> <<"0a1b", "88d1", "e007">>
          [] flipped /\ name = KEY_ITEMS_DEVELOPERS -> <<"c4c4", "2c3d", "e008">>
          [] flipped /\ name = KEY_ITEMS_ATTACHMENTS -> <<"c4c4", "2c3d", "e009">>
          [] flipped /\ name = KEY_ITEMS_COMMENTS -> <<"c4c4", "77f0", "e00a">>
          [] flipped /\ name = KEY_ITEMS_HISTORY -> <<"d3d3", "0000", "e00b">>
          [] flipped /\ name = KEY_ITEMS_RELATIONS -> <<"d3d3", "0000", "e00c">>

\* get_path: <absolute directory>/h[:4]/h[4:8]/h[8:]
get_path(directory, url) ==
    LET h == hexdigest(url)
    IN  join(join(join(abspath(directory), <<h[1]>>), <<h[2]>>), <<h[3]>>)

\* The index file taken to be that of the analysis whatever the type
IndexFileOfAnalysis(ia) == CACHE_ANALYSIS_INDEX_FILE

\* The index file of the analyzer's index type
IndexFile(ia) ==
    IF ia.indexType = CACHE_INDEX_TYPE_ANALYSIS
    THEN CACHE_ANALYSIS_INDEX_FILE ELSE CACHE_TEST_INDEX_FILE

\* get_index_path: the path it returns and the file system it leaves
get_index_path(ia, createDirectory, fs) ==
    LET path == join(ia.cacheDirectory, IndexFile(ia))
    IN  IF isfile(fs, path) THEN [path |-> path, fs |-> fs]
        ELSE IF createDirectory
        THEN [path |-> path,
              fs |-> IF exists(fs, dirname(path)) THEN fs
                     ELSE makedirs(fs, dirname(path))]
        ELSE [path |-> NoPath, fs |-> fs]

indexPathExists(ia, fs) == get_index_path(ia, FALSE, fs).path # NoPath

\* get_data: the object read, or the IOError of a missing file
get_data(path, fs) ==
    IF isfile(fs, path)
    THEN [raised |-> "none", data |-> load(fs.files[abspath(path)])]
    ELSE [raised |-> "IOError"]

\* put_data that leaves a file that is already there as it is
put_dataOnce(directory, url, obj, fs) ==
    LET path == get_path(directory, url)
        made == IF exists(fs, dirname(path)) THEN fs
                ELSE makedirs(fs, dirname(path))
    IN  [path |-> path,
         fs |-> IF isfile(fs, path) THEN made ELSE write(made, path, dump(obj))]

\* put_data: the path it returns and the file system it leaves
put_data(directory, url, obj, fs) ==
    LET path == get_path(directory, url)
        made == IF exists(fs, dirname(path)) THEN fs
                ELSE makedirs(fs, dirname(path))
    IN  [path |-> path, fs |-> write(made, path, dump(obj))]

\* The text create_index writes: each path followed by "\n"
RECURSIVE IndexText(_)
IndexText(idx) ==
    IF idx = <<>> THEN <<>>
    ELSE Head(idx) \o <<"\n">> \o IndexText(Tail(idx))

\* create_index with <<idxBug, idxDev, idxAtc, idxCom, idxHis, idxRel>>
create_index(ia, idx, fs) ==
    LET index == get_index_path(ia, TRUE, fs)
    IN  [path |-> index.path,
         fs |-> write(index.fs, index.path, [text |-> IndexText(idx)])]

\* parse_index: the lines of the index file, [] when there is none
parse_index(ia, fs) ==
    LET path == get_index_path(ia, FALSE, fs).path
    IN  IF path = NoPath THEN <<>>
        ELSE LET lines == readlines(fs.files[abspath(path)].text)
             IN  [i \in 1..Len(lines) |-> rstrip(lines[i], "\n")]

\* delete_data, the loop over the listed paths: each file is removed and
\* its top folder under the cache directory is pruned when it holds no
\* file any more; [1] of a split without a second part is an IndexError
RECURSIVE DeleteListed(_, _, _)
DeleteListed(directory, paths, fs) ==
    IF paths = <<>> THEN [raised |-> "none", fs |-> fs]
    ELSE LET path == Head(paths)
             removed == delete_file(fs, path)
             parts == split(From(path, Len(directory)), "/")
         IN  IF Len(parts) < 2 THEN [raised |-> "IndexError", fs |-> removed]
             ELSE LET folder == join(directory, parts[2])
                  IN  DeleteListed(directory, Tail(paths),
                          IF walk(removed, folder) = 0 /\ exists(removed, folder)
                          THEN rmtree(removed, folder) ELSE removed)

\* delete_data: the file system it leaves
delete_data(ia, fs) ==
    LET directory == ia.cacheDirectory
        paths == parse_index(ia, fs)
        index == get_index_path(ia, FALSE, fs).path
    IN  IF index = NoPath THEN [raised |-> "none", fs |-> fs]
        ELSE LET listed == DeleteListed(directory, paths, delete_file(fs, index))
             IN  IF listed.raised # "none" THEN listed
                 ELSE [raised |-> "none",
                       fs |-> IF listdir(listed.fs, directory) = {}
                              THEN rmdir(listed.fs, directory) ELSE listed.fs]

\* storeOnCache, the six put_data calls: the first n result sets are put,
\* in the order of Keys
RECURSIVE PutResults(_, _, _)
PutResults(ia, n, fs) ==
    IF n = 0 THEN [idx |-> <<>>, fs |-> fs]
    ELSE LET before == PutResults(ia, n - 1, fs)
             put == put_data(ia.cacheDirectory, ia.urlResult[Keys[n]],
                             ia[ResultNames[n]], before.fs)
         IN  [idx |-> Append(before.idx, put.path), fs |-> put.fs]

\* storeOnCache: the file system it leaves
storeOnCache(ia, fs) ==
    LET deleted == delete_data(ia, fs)
    IN  IF deleted.raised # "none" THEN deleted
        ELSE LET put == PutResults(ia, Len(Keys), deleted.fs)
             IN  [raised |-> "none", fs |-> create_index(ia, put.idx, put.fs).fs]

\* getFromCache: the analyzer it leaves; unpacking a list that has not six
\* elements is a ValueError, reading a missing file an IOError
getFromCache(ia, fs) ==
    LET idx == parse_index(ia, fs)
    IN  IF Len(idx) # Len(Keys) THEN [raised |-> "ValueError", ia |-> ia]
        ELSE IF \E i \in 1..Len(idx) : get_data(idx[i], fs).raised # "none"
        THEN [raised |-> "IOError", ia |-> ia]
        ELSE [raised |-> "none",
              ia |-> [f \in DOMAIN ia |->
                         IF \E i \in 1..Len(idx) : ResultNames[i] = f
                         THEN get_data(idx[CHOOSE i \in 1..Len(idx) :
                                               ResultNames[i] = f], fs).data
                         ELSE ia[f]]]

\* ------------------------------------------------- the cache at work
\* `call` is the last call of a cache function with its arguments and
\* `outcome` what it returned.

\* The file system as it is
Disk == FileSystem(files, dirs)

\* The cache directory as the handler receives it: an absolute path or a
\* path relative to the working directory
CacheDirectories == {<<"/", "var", "/", "cache">>, <<"cache">>}

\* The source URLs a scratch yields: six different ones, or the same URL
\* for bugs and developers
UrlSets ==
    {[k \in {Keys[i] : i \in 1..Len(Keys)} |-> SourceUrl(k)],
     [k \in {Keys[i] : i \in 1..Len(Keys)} |->
         IF k = KEY_ITEMS_DEVELOPERS THEN SourceUrl(KEY_ITEMS_BUGS)
         ELSE SourceUrl(k)]}

\* The result sets a scratch yields: neighbours in Keys differ
ResultSets ==
    {[i \in 1..Len(Keys) |-> ((i + s) % MaxData) + 1] : s \in 0..(MaxData - 1)}

\* The run mode the handler pairs with an index type
RunModeOf(indexType) ==
    IF indexType = CACHE_INDEX_TYPE_ANALYSIS THEN RUN_MODE_ANALYSIS
    ELSE RUN_MODE_TEST

\* An IssueAnalyzer as the cache sees it
Analyzer(indexType, cacheDirectory, urlResult, results) ==
    [indexType |-> indexType, cacheDirectory |-> cacheDirectory,
     urlResult |-> urlResult,
     bugResult |-> results[1], devResult |-> results[2],
     attachmentResult |-> results[3], commentResult |-> results[4],
     historyResult |-> results[5], relationResult |-> results[6]]

\* The six results an analyzer holds, in the order of Keys
ResultsOf(ia) == [i \in 1..Len(Keys) |-> ia[ResultNames[i]]]

\* The six data paths of an analyzer, in the order of Keys
PathsOf(ia) ==
    [i \in 1..Len(Keys) |-> get_path(ia.cacheDirectory, ia.urlResult[Keys[i]])]

\* Everything outside the cache
engine == <<conf, spentTime, bugAssignments, bugStatistics, developers,
            passVars, outer, service>>

\* The handler's loop enters the mode of index type t and scratches: the
\* server answers the same requests as before, so the URLs are those the
\* analyzer holds, flipped when the run mode changes
Scratch(t, results) ==
    /\ issueAnalyzer' =
           Analyzer(t, issueAnalyzer.cacheDirectory,
                    [k \in DOMAIN issueAnalyzer.urlResult |->
                        IF RunModeOf(t) = RunModeOf(issueAnalyzer.indexType)
                        THEN issueAnalyzer.urlResult[k]
                        ELSE Flip(issueAnalyzer.urlResult[k])],
                    results)
    /\ issueAnalyzer' # issueAnalyzer
    /\ UNCHANGED <<engine, aside, files, dirs>>

\* The unit test switches the index type of its analyzer
SetIndexType(t) ==
    /\ t # issueAnalyzer.indexType
    /\ issueAnalyzer' = [issueAnalyzer EXCEPT !.indexType = t]
    /\ UNCHANGED <<engine, aside, files, dirs>>

\* put_data as the unit test calls it: the bugs of the analyzer
CallPutData(obj) ==
    LET directory == issueAnalyzer.cacheDirectory
        url == issueAnalyzer.urlResult[KEY_ITEMS_BUGS]
        put == put_data(directory, url, obj, Disk)
    IN  /\ call' = [fn |-> "put_data", directory |-> directory, url |-> url,
                    data |-> obj,
                    held |-> get_data(get_path(directory, url), Disk)]
        /\ outcome' = [fn |-> "put_data", returned |-> put.path]
        /\ files' = put.fs.files
        /\ dirs' = put.fs.dirs
        /\ UNCHANGED <<engine, issueAnalyzer>>

\* get_data on the path of the bugs of the analyzer
CallGetData ==
    LET path == get_path(issueAnalyzer.cacheDirectory,
                         issueAnalyzer.urlResult[KEY_ITEMS_BUGS])
    IN  /\ call' = [fn |-> "get_data", path |-> path]
        /\ outcome' = [fn |-> "get_data", got |-> get_data(path, Disk)]
        /\ UNCHANGED <<engine, cache>>

\* create_index with the six data paths of the analyzer, as the unit test
\* and storeOnCache pass them, or with the same paths in reverse
CallCreateIndex(reversed) ==
    LET idx == IF reversed THEN Flip(PathsOf(issueAnalyzer))
               ELSE PathsOf(issueAnalyzer)
        created == create_index(issueAnalyzer, idx, Disk)
    IN  /\ call' = [fn |-> "create_index", idx |-> idx]
        /\ outcome' = [fn |-> "create_index", returned |-> created.path]
        /\ files' = created.fs.files
        /\ dirs' = created.fs.dirs
        /\ UNCHANGED <<engine, issueAnalyzer>>

CallParseIndex ==
    /\ call' = [fn |-> "parse_index",
                after |-> IF call.fn = "create_index" THEN call
                          ELSE [fn |-> call.fn]]
    /\ outcome' = [fn |-> "parse_index",
                   returned |-> parse_index(issueAnalyzer, Disk)]
    /\ UNCHANGED <<engine, cache>>

CallGetIndexPath(createDirectory) ==
    LET got == get_index_path(issueAnalyzer, createDirectory, Disk)
    IN  /\ call' = [fn |-> "get_index_path",
                    createDirectory |-> createDirectory]
        /\ outcome' = [fn |-> "get_index_path", returned |-> got.path]
        /\ files' = got.fs.files
        /\ dirs' = got.fs.dirs
        /\ UNCHANGED <<engine, issueAnalyzer>>

CallIndexPathExists ==
    /\ call' = [fn |-> "indexPathExists"]
    /\ outcome' = [fn |-> "indexPathExists",
                   returned |-> indexPathExists(issueAnalyzer, Disk)]
    /\ UNCHANGED <<engine, cache>>

\* delete_file as the unit test calls it: the bugs of the analyzer
CallDeleteFile ==
    LET path == get_path(issueAnalyzer.cacheDirectory,
                         issueAnalyzer.urlResult[KEY_ITEMS_BUGS])
        deleted == delete_file(Disk, path)
    IN  /\ call' = [fn |-> "delete_file", path |-> path]
        /\ outcome' = [fn |-> "delete_file"]
        /\ files' = deleted.files
        /\ dirs' = deleted.dirs
        /\ UNCHANGED <<engine, issueAnalyzer>>

CallDeleteData ==
    LET deleted == delete_data(issueAnalyzer, Disk)
        listed == parse_index(issueAnalyzer, Disk)
    IN  /\ call' = [fn |-> "delete_data",
                    indexed |-> indexPathExists(issueAnalyzer, Disk),
                    missing |-> \E i \in 1..Len(listed) :
                                   ~isfile(Disk, listed[i])]
        /\ outcome' = [fn |-> "delete_data", raised |-> deleted.raised]
        /\ files' = deleted.fs.files
        /\ dirs' = deleted.fs.dirs
        /\ UNCHANGED <<engine, issueAnalyzer>>

CallStoreOnCache ==
    LET put == storeOnCache(issueAnalyzer, Disk)
    IN  /\ call' = [fn |-> "storeOnCache",
                    indexType |-> issueAnalyzer.indexType,
                    results |-> ResultsOf(issueAnalyzer),
                    distinct |-> \A j, k \in DOMAIN issueAnalyzer.urlResult :
                                    j # k => issueAnalyzer.urlResult[j]
                                                 # issueAnalyzer.urlResult[k],
                    indexed |-> indexPathExists(issueAnalyzer, Disk)]
        /\ outcome' = [fn |-> "storeOnCache", raised |-> put.raised]
        /\ files' = put.fs.files
        /\ dirs' = put.fs.dirs
        /\ UNCHANGED <<engine, issueAnalyzer>>

CallGetFromCache ==
    LET got == getFromCache(issueAnalyzer, Disk)
    IN  /\ call' = [fn |-> "getFromCache", after |-> call.fn,
                    held |-> ResultsOf(issueAnalyzer)]
        /\ outcome' = [fn |-> "getFromCache", raised |-> got.raised]
        /\ issueAnalyzer' = got.ia
        /\ UNCHANGED <<engine, files, dirs>>

IndexTypes == {CACHE_INDEX_TYPE_ANALYSIS, CACHE_INDEX_TYPE_TEST}

\* The handler at work: an empty disk and an analyzer that has scratched
CacheInit ==
    /\ NoPass
    /\ NoSearch
    /\ call = [fn |-> "none"]
    /\ outcome = [fn |-> "none"]
    /\ NoService
    /\ files = [p \in {} |-> <<>>]
    /\ dirs = {Cwd}
    /\ \E directory \in CacheDirectories, urls \in UrlSets, results \in ResultSets :
         issueAnalyzer =
             Analyzer(CACHE_INDEX_TYPE_ANALYSIS, directory, urls, results)

CacheNext ==
    \/ \E t \in IndexTypes, results \in ResultSets : Scratch(t, results)
    \/ CallIndexPathExists
    \/ CallDeleteFile
    \/ CallDeleteData
    \/ CallStoreOnCache
    \/ CallGetFromCache

CacheSpec == CacheInit /\ [][CacheNext]_vars

\* The unit test at work: the functions of the cache called one by one on
\* an analyzer with six different URLs
LibraryInit ==
    /\ NoPass
    /\ NoSearch
    /\ call = [fn |-> "none"]
    /\ outcome = [fn |-> "none"]
    /\ NoService
    /\ files = [p \in {} |-> <<>>]
    /\ dirs = {Cwd}
    /\ \E directory \in CacheDirectories, results \in ResultSets :
         issueAnalyzer =
             Analyzer(CACHE_INDEX_TYPE_ANALYSIS, directory,
                      [k \in {Keys[i] : i \in 1..Len(Keys)} |-> SourceUrl(k)],
                      results)

LibraryNext ==
    \/ \E t \in IndexTypes : SetIndexType(t)
    \/ \E createDirectory \in BOOLEAN : CallGetIndexPath(createDirectory)
    \/ \E obj \in 1..MaxData : CallPutData(obj)
    \/ CallGetData
    \/ \E reversed \in BOOLEAN : CallCreateIndex(reversed)
    \/ CallParseIndex
    \/ CallDeleteFile
    \/ CallIndexPathExists
    \/ CallDeleteData

LibrarySpec == LibraryInit /\ [][LibraryNext]_vars

\* C26: after put_data(directory, url, data) the path returned is
\* get_path(directory, url), a function of the directory and the URL alone;
\* the file at that path holds the data, so get_data on the returned path
\* yields the data put, whatever the file held before the call.
C26_PutDataThenGetData ==
    outcome.fn = "put_data" =>
        /\ outcome.returned = get_path(call.directory, call.url)
        /\ isfile(Disk, outcome.returned)
        /\ get_data(outcome.returned, Disk) =
               [raised |-> "none", data |-> call.data]

\* a second put_data with the same URL and other data has just returned
C26_Witness ==
    /\ outcome.fn = "put_data"
    /\ call.held.raised = "none"
    /\ call.held.data # call.data

\* a first put_data into a directory given as a relative path
C26_WitnessFirst ==
    /\ outcome.fn = "put_data"
    /\ call.held.raised = "IOError"
    /\ call.directory # abspath(call.directory)

\* The index file of the current index type, by name
CurrentIndex ==
    IF issueAnalyzer.indexType = CACHE_INDEX_TYPE_ANALYSIS
    THEN issueAnalyzer.cacheDirectory \o <<"/", "issueAnalyzerAnalysisIndex">>
    ELSE issueAnalyzer.cacheDirectory \o <<"/", "issueAnalyzerTestIndex">>

\* C28: get_index_path returns the empty string when the index file of the
\* current index type does not exist and createDirectory is false; with
\* createDirectory true it returns the path of the index file of that type
\* although it creates no file; indexPathExists returns true exactly when
\* the index file of the current type exists.
C28_IndexPathOfCurrentType ==
    [][/\ (\E createDirectory \in BOOLEAN : CallGetIndexPath(createDirectory)) =>
            /\ outcome'.returned =
                   IF isfile(Disk, CurrentIndex) \/ call'.createDirectory
                   THEN CurrentIndex ELSE NoPath
            /\ files' = files
       /\ CallIndexPathExists =>
            outcome'.returned = isfile(Disk, CurrentIndex)]_vars

\* get_index_path with createDirectory true has returned the path of the
\* test index, which does not exist
C28_Witness ==
    /\ outcome.fn = "get_index_path"
    /\ call.createDirectory
    /\ outcome.returned =
           issueAnalyzer.cacheDirectory \o <<"/", "issueAnalyzerTestIndex">>
    /\ ~isfile(Disk, outcome.returned)

\* get_index_path with createDirectory false has returned the empty string
\* while the index of the other type exists
C28_WitnessNoPath ==
    /\ outcome.fn = "get_index_path"
    /\ ~call.createDirectory
    /\ outcome.returned = NoPath
    /\ \E name \in {CACHE_ANALYSIS_INDEX_FILE, CACHE_TEST_INDEX_FILE} :
           isfile(Disk, join(issueAnalyzer.cacheDirectory, name))

\* indexPathExists has returned true
C28_WitnessExists ==
    /\ outcome.fn = "indexPathExists"
    /\ outcome.returned

\* C27: parse_index called right after create_index, in the index type
\* create_index wrote, returns the six paths given to create_index in the
\* order they were given (bug, developer, attachment, comment, history,
\* relation); parse_index returns the empty list when no index file of the
\* current type exists.
C27_ParseIndexReturnsWhatWasWritten ==
    [][CallParseIndex =>
         /\ (outcome.fn = "create_index" /\ outcome.returned = CurrentIndex) =>
                outcome'.returned = call.idx
         /\ ~isfile(Disk, CurrentIndex) => outcome'.returned = <<>>]_vars

\* parse_index has returned the six paths create_index had just written
\* in reverse
C27_Witness ==
    /\ outcome.fn = "parse_index"
    /\ call.after.fn = "create_index"
    /\ Len(outcome.returned) = Len(Keys)
    /\ outcome.returned = call.after.idx
    /\ outcome.returned = Flip(PathsOf(issueAnalyzer))

\* parse_index has returned the empty list right after create_index wrote
\* the index of the other type
C27_WitnessNoIndex ==
    /\ outcome.fn = "parse_index"
    /\ call.after.fn = "create_index"
    /\ outcome.returned = <<>>

\* No file lies anywhere under the directory
HoldsNoFile(fs, directory) ==
    \A q \in DOMAIN fs.files : ~IsUnder(q, abspath(directory))

\* C29: delete_data on a cache whose index exists returns normally, also
\* when listed files are missing already; afterwards the index file and
\* every data file listed in it are gone and indexPathExists is false; the
\* cache directory is removed when nothing is left in it, which is the case
\* for a directory given as an absolute path as soon as no file is left
\* under it.  Without an index of the current type delete_data changes
\* nothing.
C29_DeleteDataRemovesTheCache ==
    [][CallDeleteData =>
         LET directory == issueAnalyzer.cacheDirectory
             listed == parse_index(issueAnalyzer, Disk)
             left == FileSystem(files', dirs')
         IN  IF isfile(Disk, CurrentIndex)
             THEN /\ outcome'.raised = "none"
                  /\ ~isfile(left, CurrentIndex)
                  /\ \A i \in 1..Len(listed) : ~isfile(left, listed[i])
                  /\ ~indexPathExists(issueAnalyzer, left)
                  /\ listdir(left, directory) = {} =>
                         ~exists(left, directory)
                  /\ (directory = abspath(directory)
                          /\ HoldsNoFile(left, directory)) =>
                         ~exists(left, directory)
             ELSE files' = files /\ dirs' = dirs]_vars

\* delete_data has removed a cache, one of whose listed files was missing,
\* and the cache directory with it
C29_Witness ==
    /\ outcome.fn = "delete_data"
    /\ call.indexed
    /\ call.missing
    /\ ~exists(Disk, issueAnalyzer.cacheDirectory)

\* delete_data has removed a cache and left the directory, which holds the
\* cache of the other index type
C29_WitnessShared ==
    /\ outcome.fn = "delete_data"
    /\ call.indexed
    /\ ~indexPathExists(issueAnalyzer, Disk)
    /\ exists(Disk, issueAnalyzer.cacheDirectory)
    /\ ~HoldsNoFile(Disk, issueAnalyzer.cacheDirectory)

\* delete_data has returned without an index of the current type, and the
\* data files on the disk are still there
C29_WitnessNoIndex ==
    /\ outcome.fn = "delete_data"
    /\ ~call.indexed
    /\ ~HoldsNoFile(Disk, issueAnalyzer.cacheDirectory)

\* C25: getFromCache called right after storeOnCache, in the same index
\* type, returns normally and leaves the analyzer with the six result sets
\* (bugs, developers, attachments, comments, history, relations) that were
\* stored, whatever the disk held before the store and whatever the
\* analyzer holds before the read, provided the six URLs were pairwise
\* distinct.
C25_StoreThenGetRestores ==
    [][(/\ CallGetFromCache
        /\ call.fn = "storeOnCache"
        /\ call.indexType = issueAnalyzer.indexType
        /\ call.distinct) =>
           /\ outcome'.raised = "none"
           /\ ResultsOf(issueAnalyzer') = call.results]_vars

\* getFromCache has run right after storeOnCache and has replaced the
\* results the analyzer held
C25_Witness ==
    /\ outcome.fn = "getFromCache"
    /\ call.after = "storeOnCache"
    /\ outcome.raised = "none"
    /\ call.held # ResultsOf(issueAnalyzer)
    /\ \A j, k \in DOMAIN issueAnalyzer.urlResult :
           j # k => issueAnalyzer.urlResult[j] # issueAnalyzer.urlResult[k]

\* storeOnCache has replaced a cache of the same index type, next to the
\* cache of the other type
C25_WitnessReplaced ==
    /\ outcome.fn = "storeOnCache"
    /\ call.indexed
    /\ call.distinct
    /\ \A name \in {CACHE_ANALYSIS_INDEX_FILE, CACHE_TEST_INDEX_FILE} :
           isfile(Disk, join(issueAnalyzer.cacheDirectory, name))

\* ------------------------------------------------- dbmanager.py: doExec
\* The error numbers doExec tells apart (MySQL's ER_LOCK_DEADLOCK,
\* CR_SERVER_GONE_ERROR and CR_SERVER_LOST)
ER_LOCK_DEADLOCK == 1213
CR_SERVER_GONE_ERROR == 2006
CR_SERVER_LOST == 2013

\* Some other numbers an OperationalError carries (lock wait timeout,
\* access denied), and those of a ProgrammingError, which is no
\* OperationalError (syntax error, no such table)
OtherOperationalErrors == {1205, 1045}
ProgrammingErrors == {1064, 1146}

OperationalErrors ==
    {ER_LOCK_DEADLOCK, CR_SERVER_GONE_ERROR, CR_SERVER_LOST}
        \cup OtherOperationalErrors

\* The statements issued, and the three kinds of args: none, a tuple
\* (cur.execute) or a list (cur.executemany)
Statements == {"SELECT", "INSERT"}
ArgKinds == {"none", "tuple", "list"}

\* What the cursor returns for the statement: the number of rows
Rows(stmt, args) == IF args = "list" THEN 2 ELSE 1

\* "if isinstance(args, list)": executemany, else execute
CursorCall(args) == IF args = "list" THEN "executemany" ELSE "execute"

\* The branches of the handler that fall through to the next turn of
\* "while True": the deadlock alone
RetriedDeadlockOnly == {ER_LOCK_DEADLOCK}

\* The branches of the handler that fall through to the next turn of
\* "while True"
Retried == {ER_LOCK_DEADLOCK, CR_SERVER_GONE_ERROR, CR_SERVER_LOST}

\* The branches that call self.con.ping(True) first
Pinged == {CR_SERVER_GONE_ERROR, CR_SERVER_LOST}

\* A doExec call about to make its first attempt.  faults is how many
\* more deadlocks and connection losses the server will produce.
DoExecCall(stmt, args, faults) ==
    [pc |-> "try", stmt |-> stmt, args |-> args, faults |-> faults,
     connected |-> TRUE, executions |-> <<>>, caught |-> <<>>, pings |-> 0,
     pingFailed |-> FALSE, res |-> None, raised |-> None]

\* All that doExec leaves alone
analysis == <<conf, spentTime, bugAssignments, bugStatistics, developers,
              passVars, outer>>

\* "res = self.cur.execute(stmt, args); return res"
Execute ==
    /\ db.pc = "try"
    /\ db.connected
    /\ db' = [db EXCEPT !.pc = "returned",
                        !.executions = Append(@, CursorCall(db.args)),
                        !.res = Rows(db.stmt, db.args)]
    /\ UNCHANGED <<analysis, aside, cache, handler>>

\* The cursor raises mdb.OperationalError: "except ... as dbe".  A lost
\* connection leaves the connection down.
ExecuteRaisesOperationalError(code) ==
    /\ db.pc = "try"
    /\ code \in Retried => db.faults > 0
    /\ db.connected
    /\ db' = [db EXCEPT !.pc = "except",
                        !.executions = Append(@, CursorCall(db.args)),
                        !.caught = Append(@, code),
                        !.faults = IF code \in Retried THEN @ - 1 ELSE @,
                        !.connected = @ /\ code \notin Pinged]
    /\ UNCHANGED <<analysis, aside, cache, handler>>

\* The cursor raises another mdb.Error: no except clause takes it, it
\* goes through _log_db_error to the caller
ExecuteRaisesOtherError(code) ==
    /\ db.pc = "try"
    /\ db.connected
    /\ db' = [db EXCEPT !.pc = "raised",
                        !.executions = Append(@, CursorCall(db.args)),
                        !.raised = code]
    /\ UNCHANGED <<analysis, aside, cache, handler>>

dbe == db.caught[Len(db.caught)]

\* "if dbe.args[0] == 1213": a warning, and the loop goes round
RetryDeadlock ==
    /\ db.pc = "except"
    /\ dbe \in Retried \ Pinged
    /\ db' = [db EXCEPT !.pc = "try"]
    /\ UNCHANGED <<analysis, aside, cache, handler>>

\* "elif dbe.args[0] == 2006 / 2013": self.con.ping(True), which brings
\* the connection back or raises itself; then the loop goes round
Reconnect(up) ==
    /\ db.pc = "except"
    /\ dbe \in Retried \cap Pinged
    /\ db' = IF up
             THEN [db EXCEPT !.pc = "try", !.pings = @ + 1,
                             !.connected = TRUE]
             ELSE [db EXCEPT !.pc = "raised", !.pings = @ + 1,
                             !.pingFailed = TRUE,
                             !.raised = CR_SERVER_GONE_ERROR]
    /\ UNCHANGED <<analysis, aside, cache, handler>>

\* "else: raise"
Reraise ==
    /\ db.pc = "except"
    /\ dbe \notin Retried
    /\ db' = [db EXCEPT !.pc = "raised", !.raised = dbe]
    /\ UNCHANGED <<analysis, aside, cache, handler>>

DoExecInit ==
    /\ NoPass
    /\ NoSearch
    /\ call = [fn |-> "none"]
    /\ outcome = [fn |-> "none"]
    /\ NoCache
    /\ handler = [pc |-> "idle"]
    /\ db \in {DoExecCall(stmt, args, faults) :
                  stmt \in Statements, args \in ArgKinds,
                  faults \in 0..MaxFaults}

DoExecNext ==
    \/ Execute
    \/ \E code \in OperationalErrors : ExecuteRaisesOperationalError(code)
    \/ \E code \in ProgrammingErrors : ExecuteRaisesOtherError(code)
    \/ RetryDeadlock
    \/ \E up \in BOOLEAN : Reconnect(up)
    \/ Reraise

\* doExec is one thread of straight-line code: a step that can be taken
\* is taken
DoExecSpec == DoExecInit /\ [][DoExecNext]_vars /\ WF_vars(DoExecNext)

\* The three errors doExec answers by trying again
Transient == {ER_LOCK_DEADLOCK, CR_SERVER_GONE_ERROR, CR_SERVER_LOST}

\* C32: doExec re-executes the statement after a deadlock error (1213)
\* and, once the connection is back, after a "server gone away" (2006) or
\* "lost connection" (2013) error, as often as such errors come; any other
\* operational error is raised to the caller with no further execution;
\* when the transient errors stop, doExec ends, and it returns the
\* statement's result unless another error or a failed reconnection was
\* raised.
C32_DoExecRetriesUntilSuccess ==
    /\ [][db.pc = "except" /\ dbe = ER_LOCK_DEADLOCK
            => db'.pc = "try" /\ db'.pings = db.pings]_vars
    /\ [][db.pc = "except" /\ dbe \in {CR_SERVER_GONE_ERROR, CR_SERVER_LOST}
              /\ ~db'.pingFailed
            => db'.pc = "try" /\ db'.connected /\ db'.pings = db.pings + 1]_vars
    /\ [][db.pc = "except" /\ dbe \notin Transient
            => /\ db'.pc = "raised"
               /\ db'.raised = dbe
               /\ db'.executions = db.executions]_vars
    /\ [][db.pc = "try"
            => /\ db'.executions = Append(db.executions, CursorCall(db.args))
               /\ db'.pc \in {"returned", "except", "raised"}]_vars
    /\ [](db.pc = "returned"
            => /\ db.res = Rows(db.stmt, db.args)
               /\ Len(db.executions) = Len(db.caught) + 1
               /\ \A i \in 1..Len(db.caught) : db.caught[i] \in Transient)
    /\ [](db.pc = "raised"
            => db.pingFailed \/ db.raised \notin Transient)
    /\ (db.pc = "try") ~> (db.pc \in {"returned", "raised"})

\* doExec has returned the result after a deadlock, a server gone away
\* and a lost connection, two of them answered by a reconnection
C32_Witness ==
    /\ db.pc = "returned"
    /\ {db.caught[i] : i \in 1..Len(db.caught)} = Transient
    /\ db.pings = 2
    /\ Len(db.executions) = 4

\* doExec has raised another operational error after one retry
C32_WitnessRaised ==
    /\ db.pc = "raised"
    /\ Len(db.caught) = 2
    /\ db.caught[1] \in Transient
    /\ db.raised \in OtherOperationalErrors
    /\ Len(db.executions) = 2

\* ------------------------------------- bugzilla_analyzer.py: the import
\* The names a priority or severity field takes, and the configured names:
\* conf['issueAnalyzerPriority1'..'5'] and conf['issueAnalyzerSeverity1'..
\* '6'], each present (a name left out of the file has its default)
PriorityNames == {"P1", "P2", "--"}
SeverityNames == {"blocker", "normal", "enhancement"}

ConfiguredNames ==
    [priority : [1..5 -> PriorityNames \ {"--"}],
     severity : [1..6 -> SeverityNames \ {"enhancement"}]]

\* "priorityValue = 6" and the five tests but the last
PriorityValueOfFour(names, priority) ==
    LET v0 == 6
        v1 == IF priority = names[1] THEN 1 ELSE v0
        v2 == IF priority = names[2] THEN 2 ELSE v1
        v3 == IF priority = names[3] THEN 3 ELSE v2
    IN  IF priority = names[4] THEN 4 ELSE v3

\* "priorityValue = 6" and the five "if" that follow one another: each
\* one that matches sets the value again
PriorityValue(names, priority) ==
    LET v0 == 6
        v1 == IF priority = names[1] THEN 1 ELSE v0
        v2 == IF priority = names[2] THEN 2 ELSE v1
        v3 == IF priority = names[3] THEN 3 ELSE v2
        v4 == IF priority = names[4] THEN 4 ELSE v3
    IN  IF priority = names[5] THEN 5 ELSE v4

\* "severityValue = 7" and the chain of "if ... elif": the first one that
\* matches sets the value
SeverityValue(names, severity) ==
    IF severity = names[1] THEN 1
    ELSE IF severity = names[2] THEN 2
    ELSE IF severity = names[3] THEN 3
    ELSE IF severity = names[4] THEN 4
    ELSE IF severity = names[5] THEN 5
    ELSE IF severity = names[6] THEN 6
    ELSE 7

ImportCalls ==
    {[fn |-> "import", conf |-> c, priority |-> p, severity |-> v] :
        c \in ConfiguredNames, p \in PriorityNames, v \in SeverityNames}

\* One turn of "for bug in bugResult": the two values of the bug's row
ImportBug ==
    /\ call.fn = "import"
    /\ outcome.fn = "none"
    /\ outcome' = [fn |-> "import",
                   priorityValue |->
                       PriorityValue(call.conf.priority, call.priority),
                   severityValue |->
                       SeverityValue(call.conf.severity, call.severity)]
    /\ UNCHANGED <<analysis, call, cache, service>>

ImportInit ==
    /\ NoPass
    /\ NoSearch
    /\ call \in ImportCalls
    /\ outcome = [fn |-> "none"]
    /\ NoCache
    /\ NoService

ImportNext == ImportBug

ImportSpec == ImportInit /\ [][ImportNext]_vars

\* C33: priorityValue is a rank in 1..5 whose configured priority name
\* equals the bug's priority, and 6 when no configured name equals it;
\* severityValue is a rank in 1..6 whose configured severity name equals
\* the bug's severity, and 7 when none equals it; so priorityValue is in
\* 1..6 and severityValue in 1..7.
C33_RanksOfConfiguredNames ==
    outcome.fn = "import" =>
        /\ outcome.priorityValue \in 1..6
        /\ outcome.severityValue \in 1..7
        /\ IF \E i \in 1..5 : call.conf.priority[i] = call.priority
           THEN /\ outcome.priorityValue \in 1..5
                /\ call.conf.priority[outcome.priorityValue] = call.priority
           ELSE outcome.priorityValue = 6
        /\ IF \E i \in 1..6 : call.conf.severity[i] = call.severity
           THEN /\ outcome.severityValue \in 1..6
                /\ call.conf.severity[outcome.severityValue] = call.severity
           ELSE outcome.severityValue = 7

\* a bug of the fifth priority and the sixth severity has been imported
C33_Witness ==
    /\ outcome.fn = "import"
    /\ outcome.priorityValue = 5
    /\ outcome.severityValue = 6

\* a bug whose priority and severity are not configured has been imported
C33_WitnessDefault ==
    /\ outcome.fn = "import"
    /\ outcome.priorityValue = 6
    /\ outcome.severityValue = 7

\* ------------------------------------------ the busy set and the loads
\* C34: within one getResult pass no step removes a developer from the
\* busy set, and the branch of the acceptance that deletes the displaced
\* assignee from it is never taken: while a bug's candidates are walked
\* its current best candidate is not in the busy set.
C34_BusySetOnlyGrows ==
    /\ [][developerBusyDict \subseteq developerBusyDict']_vars
    /\ [](assignee # None => assignee \notin developerBusyDict)
    /\ [][Accept /\ assignee # None
            => assignee \notin developerBusyDict
               /\ developerBusyDict' = developerBusyDict]_vars

\* a best candidate has been displaced while the busy set held a developer
C34_Witness ==
    /\ developerBusyDict # {}
    /\ assignee # None
    /\ Len(scored) >= 2
    /\ scored[1].developer # assignee
    /\ rank = assigneeRank

\* The pass stands between two bugs, or after the last one
AtBugBoundary == pc \in {"for_bug", "done"}

\* C35: at every bug boundary of a pass the load of each developer is the
\* sum of the assigneeTime values of the bugs assigned to it so far; the
\* load of a developer at the end of a bug is not below its load at the
\* start of that bug; and every gate reads, for its candidate, the load the
\* candidate had when the bug began, so no verdict rests on a debit made
\* for a provisional assignee.
C35_LoadIsSumOfCommittedTimes ==
    /\ AtBugBoundary =>
           \A d \in Devs :
               /\ Eq(TimeAssignments(developerTimeAssignments, d),
                     SumDevAvgTime(committed, d))
               /\ bug > 0 =>
                      Leq(TimeAssignments(atBugStart.time, d),
                          TimeAssignments(developerTimeAssignments, d))
    /\ IsEvaluated =>
           Eq(candidateLoad, TimeAssignments(atBugStart.time, dev.developer))

\* a bug has ended after a debited best candidate was displaced, and its
\* assignee carries a load
C35_Witness ==
    /\ pc = "for_bug"
    /\ assignee # None
    /\ Len(scored) >= 2
    /\ scored[1].developer # assignee
    /\ Less(Zero, scored[1].devAvgTime)
    /\ Less(Zero, TimeAssignments(developerTimeAssignments, assignee))
    /\ Len(committed) = 2

\* a candidate is found busy on the load of the bug it won before
C35_WitnessBusy ==
    /\ IsEvaluated
    /\ candidateBusy
    /\ Less(Zero, candidateLoad)

\* The developers with no time recorded on closed bugs of the project
WithoutTimeAvailable == {d \in Devs : spentTime[d][1] = 0}

\* C37: a developer whose timeAvailable is 0 fails the capacity gate
\* whatever the time increment, the time on open bugs and the load are, and
\* is neither a bug's provisional assignee nor emitted in any pass.
C37_NoTimeAvailableNeverAssigned ==
    /\ \A tu \in 0..MaxTime, ta \in 0..MaxTime :
           DeveloperBusy(conf, Zero, PyInt(tu), PyInt(ta))
    /\ \A d \in WithoutTimeAvailable :
           /\ d \notin Emitted
           /\ d # assignee
           /\ (IsEvaluated /\ dev.developer = d) => candidateBusy

\* a bug ends with an assignee although a candidate without time
\* available, found busy, has a higher rank
C37_Witness ==
    /\ AtBugEnd
    /\ assignee # None
    /\ \E i \in 1..Len(CurrentList) :
          /\ CurrentList[i].developer \in WithoutTimeAvailable
          /\ CurrentList[i].developer \in developerBusyDict
          /\ Less(assigneeRank,
                  Rank(conf, bugStatistics[bug],
                       CombinedDetails(atBugStart.developers, CurrentList[i])))

\* ------------------------------------------------- the best of the search
\* The grid search is under way or over
InSearch == phase \in {"search", "evaluating", "ended"} /\ runMode = RUN_MODE_TEST

\* C38: the grid search starts from bestScore 0 and the all-zero vector; a
\* step replaces the best only with a vector whose score is above 0; and
\* when the search ends without any evaluated vector scoring above 0 the
\* best is the all-zero vector with score 0.
C38_BestStartsAtZero ==
    /\ [][phase = "initial" /\ phase' = "search"
            => Eq(bestScore', Zero) /\ bestCoefficients' = ZeroCoefficients]_vars
    /\ [][(InSearch /\ <<bestScore, bestCoefficients>>' # <<bestScore, bestCoefficients>>)
            => /\ Less(Zero, LastEvaluated'.score)
               /\ Eq(bestScore', LastEvaluated'.score)
               /\ bestCoefficients' = LastEvaluated'.coefficients]_vars
    /\ [](InSearch =>
            \/ Less(Zero, bestScore)
            \/ Eq(bestScore, Zero) /\ bestCoefficients = ZeroCoefficients)
    /\ []((SearchEnded /\ \A i \in SearchRuns : ~Less(Zero, evaluated[i].score))
            => Eq(bestScore, Zero) /\ bestCoefficients = ZeroCoefficients)

\* the search has ended with the all-zero best although a vector had a
\* positive F-measure: every vector left a bug unassigned
C38_Witness ==
    /\ SearchEnded
    /\ Eq(bestScore, Zero)
    /\ bestCoefficients = ZeroCoefficients
    /\ \E i \in SearchRuns :
          /\ Less(Zero, evaluated[i].F)
          /\ evaluated[i].nA < evaluated[i].tA
          /\ evaluated[i].coefficients # ZeroCoefficients

\* the search has ended with a vector retained on a positive score
C38_WitnessRetained ==
    /\ SearchEnded
    /\ Less(Zero, bestScore)
    /\ bestCoefficients # ZeroCoefficients

\* The list the search was given, and the vectors evaluated so far in the
\* order of their evaluation
Generated == GenerateCoefficientList(GridSearchParameters)
SearchSeq == SelectSeq(evaluated, LAMBDA e : e.kind = "search")

\* The position in the generated list of the k-th vector evaluated
PositionOfRun(k) == Len(Generated) + 1 - k

\* The runs that reached the greatest score
MaxRuns ==
    {k \in 1..Len(SearchSeq) :
        \A j \in 1..Len(SearchSeq) : ~Less(SearchSeq[k].score, SearchSeq[j].score)}

IndexTypesOf(runModeArgument) ==
    IF runModeArgument = "analysisOnly" THEN <<CACHE_INDEX_TYPE_ANALYSIS>>
    ELSE IF runModeArgument = "testOnly" THEN <<CACHE_INDEX_TYPE_TEST>>
    ELSE <<CACHE_INDEX_TYPE_ANALYSIS, CACHE_INDEX_TYPE_TEST>>

RunModeArguments == {"analysisOnly", "testOnly", "all"}

\* The flags tuple: flags[0] .. flags[3]
Flags ==
    [dropDatabase : BOOLEAN, scratchOnly : BOOLEAN, analyzeOnly : BOOLEAN,
     deleteCacheOnly : BOOLEAN]

\* "self.__bugResult = dict()": a result set that holds nothing
EmptyResult == 0

\* The IssueAnalyzer after __init__: no index type yet, empty dicts
NewAnalyzer(directory) ==
    [cacheDirectory |-> directory, urlResult |-> [k \in {} |-> <<>>],
     bugResult |-> EmptyResult, devResult |-> EmptyResult,
     attachmentResult |-> EmptyResult, commentResult |-> EmptyResult,
     historyResult |-> EmptyResult, relationResult |-> EmptyResult]

\* bugzilla.scratch: the URLs of the requests as the run mode stores them
UrlsByRunMode(urls, indexType) ==
    [k \in DOMAIN urls |-> getUrlByRunMode(urls[k], RunModeOf(indexType))]

\* The disk an earlier run with the same configuration has left: the
\* caches of the index types in `stored`, each written by storeOnCache
RECURSIVE DiskAfter(_, _, _, _)
DiskAfter(earlier, directory, urls, results) ==
    IF earlier = <<>> THEN FileSystem([p \in {} |-> <<>>], {Cwd})
    ELSE LET t == earlier[Len(earlier)]
             before == DiskAfter(SubSeq(earlier, 1, Len(earlier) - 1),
                                 directory, urls, results)
         IN  storeOnCache(Analyzer(t, directory, UrlsByRunMode(urls, t),
                                   results), before).fs

EarlierRuns ==
    {<<>>, <<CACHE_INDEX_TYPE_ANALYSIS>>, <<CACHE_INDEX_TYPE_TEST>>,
     <<CACHE_INDEX_TYPE_ANALYSIS, CACHE_INDEX_TYPE_TEST>>}

\* The handler before handle() is called
NewHandler(runModeArgument, flags, urls) ==
    [pc |-> "start", flags |-> flags,
     indexTypes |-> IndexTypesOf(runModeArgument), i |-> 1, urls |-> urls,
     database |-> "filled", events |-> <<>>, raised |-> "none"]

\* One entry of the history: what was started, for which index type, and
\* whether the cache index of that type existed at that moment
Event(op) ==
    [op |-> op, indexType |-> issueAnalyzer.indexType,
     indexed |-> indexPathExists(issueAnalyzer, Disk)]

\* The entry of a scrape keeps the results the server sent
Scratched(results) ==
    [op |-> "scratch", indexType |-> issueAnalyzer.indexType,
     indexed |-> indexPathExists(issueAnalyzer, Disk), results |-> results]

everything == <<analysis, aside, db>>

\* "if self.flags[0]: self.dbm.reset_issue_database(); return"
DropDatabase ==
    /\ handler.pc = "start"
    /\ handler.flags.dropDatabase
    /\ handler' = [handler EXCEPT !.pc = "returned", !.database = "reset",
                                  !.events = Append(@, [op |-> "reset"])]
    /\ UNCHANGED <<everything, cache>>

\* "self.__indexType = indexType"
WithIndexType(ia, t) ==
    [f \in DOMAIN ia \cup {"indexType"} |->
        IF f = "indexType" THEN t ELSE ia[f]]

\* "for runMode, indexType in zip(self.__runModes, self.__indexTypes)"
\* with "self.__runMode = runMode; self.__indexType = indexType"
EnterMode ==
    /\ \/ handler.pc = "start" /\ ~handler.flags.dropDatabase
       \/ handler.pc = "loop"
    /\ handler.i <= Len(handler.indexTypes)
    /\ issueAnalyzer' =
           WithIndexType(issueAnalyzer, handler.indexTypes[handler.i])
    /\ handler' = [handler EXCEPT !.pc = "mode"]
    /\ UNCHANGED <<everything, files, dirs>>

\* The loop is over: handle returns
EndHandle ==
    /\ \/ handler.pc = "start" /\ ~handler.flags.dropDatabase
       \/ handler.pc = "loop"
    /\ handler.i > Len(handler.indexTypes)
    /\ handler' = [handler EXCEPT !.pc = "returned"]
    /\ UNCHANGED <<everything, cache>>

\* "if self.flags[3]: cache.delete_data(self)"
DeleteCacheOnly ==
    LET deleted == delete_data(issueAnalyzer, Disk)
    IN  /\ handler.pc = "mode"
        /\ handler.flags.deleteCacheOnly
        /\ files' = deleted.fs.files
        /\ dirs' = deleted.fs.dirs
        /\ handler' = [handler EXCEPT
                          !.pc = IF deleted.raised = "none" THEN "completed"
                                 ELSE "raised",
                          !.raised = deleted.raised,
                          !.events = Append(@, Event("delete"))]
        /\ UNCHANGED <<everything, issueAnalyzer>>

\* "elif self.flags[2] and not cache.indexPathExists(self)"
NothingToAnalyze(h, ia, fs) ==
    /\ ~h.flags.deleteCacheOnly
    /\ h.flags.analyzeOnly
    /\ ~indexPathExists(ia, fs)

SkipMode ==
    /\ handler.pc = "mode"
    /\ NothingToAnalyze(handler, issueAnalyzer, Disk)
    /\ handler' = [handler EXCEPT !.pc = "completed"]
    /\ UNCHANGED <<everything, cache>>

\* "if not self.flags[2]"
ScratchDue(h) == ~h.flags.analyzeOnly

\* A guard that analyses whatever scratchOnly says
AnalysisDueDespiteScratchOnly(h, ia, fs) == indexPathExists(ia, fs)

\* "if not self.flags[1] and cache.indexPathExists(self)"
AnalysisDue(h, ia, fs) ==
    /\ ~h.flags.scratchOnly
    /\ indexPathExists(ia, fs)

\* The else branch is taken
ElseBranch ==
    /\ handler.pc = "mode"
    /\ ~handler.flags.deleteCacheOnly
    /\ ~NothingToAnalyze(handler, issueAnalyzer, Disk)

\* scratch(), "bugzilla.scratch(self)": the analyzer holds the URLs of the
\* run mode and the results the server sent
BugzillaScratch(results) ==
    /\ ElseBranch
    /\ ScratchDue(handler)
    /\ handler' = [handler EXCEPT !.pc = "scratched",
                                  !.events = Append(@, Scratched(results))]
    /\ issueAnalyzer' =
           Analyzer(issueAnalyzer.indexType, issueAnalyzer.cacheDirectory,
                    UrlsByRunMode(handler.urls, issueAnalyzer.indexType),
                    results)
    /\ UNCHANGED <<everything, files, dirs>>

\* scratch(), "cache.storeOnCache(self)"
StoreOnCache ==
    LET put == storeOnCache(issueAnalyzer, Disk)
    IN  /\ handler.pc = "scratched"
        /\ files' = put.fs.files
        /\ dirs' = put.fs.dirs
        /\ handler' = [handler EXCEPT
                          !.pc = IF put.raised = "none" THEN "stored"
                                 ELSE "raised",
                          !.raised = put.raised,
                          !.events = Append(@, Event("store"))]
        /\ UNCHANGED <<everything, issueAnalyzer>>

\* Line 198 is reached: after scratch(), or at once with analyzeOnly
BeforeAnalysis ==
    \/ handler.pc = "stored"
    \/ ElseBranch /\ ~ScratchDue(handler)

\* analyze(): "cache.getFromCache(self)", then "bugzilla.analyze(self)",
\* a function bugzilla_analyzer.py does not define: the call raises
\* AttributeError once the cache is read
Analyze ==
    LET got == getFromCache(issueAnalyzer, Disk)
    IN  /\ BeforeAnalysis
        /\ AnalysisDue(handler, issueAnalyzer, Disk)
        /\ issueAnalyzer' = got.ia
        /\ handler' = [handler EXCEPT
                          !.pc = "raised",
                          !.raised = IF got.raised = "none"
                                     THEN "AttributeError" ELSE got.raised,
                          !.events = Append(@, Event("analyze"))]
        /\ UNCHANGED <<everything, files, dirs>>

\* Line 198 is false: no analysis for this mode
SkipAnalysis ==
    /\ BeforeAnalysis
    /\ ~AnalysisDue(handler, issueAnalyzer, Disk)
    /\ handler' = [handler EXCEPT !.pc = "completed"]
    /\ UNCHANGED <<everything, cache>>

\* log.info("Completed!") and the next round of the loop
Completed ==
    /\ handler.pc = "completed"
    /\ handler' = [handler EXCEPT !.pc = "loop", !.i = @ + 1]
    /\ UNCHANGED <<everything, cache>>

HandleInit ==
    /\ NoPass
    /\ NoSearch
    /\ call = [fn |-> "none"]
    /\ outcome = [fn |-> "none"]
    /\ db = [pc |-> "idle"]
    /\ \E directory \in CacheDirectories, urls \in UrlSets,
          earlier \in EarlierRuns, results \in ResultSets,
          runModeArgument \in RunModeArguments, flags \in Flags :
         /\ issueAnalyzer = NewAnalyzer(directory)
         /\ files = DiskAfter(earlier, directory, urls, results).files
         /\ dirs = DiskAfter(earlier, directory, urls, results).dirs
         /\ handler = NewHandler(runModeArgument, flags, urls)

HandleNext ==
    \/ DropDatabase
    \/ EnterMode
    \/ EndHandle
    \/ DeleteCacheOnly
    \/ SkipMode
    \/ \E results \in ResultSets : BugzillaScratch(results)
    \/ StoreOnCache
    \/ Analyze
    \/ SkipAnalysis
    \/ Completed

HandleSpec == HandleInit /\ [][HandleNext]_vars

\* The history of the handler and the positions of one kind of entry
Events == handler.events

Started(op) == {k \in 1..Len(Events) : Events[k].op = op}

StartedFor(op, t) == {k \in Started(op) : Events[k].indexType = t}

\* The cache of index type t on a disk: its index and what the listed
\* files hold
CacheOf(t, fs) ==
    LET ia == WithIndexType(issueAnalyzer, t)
        listed == parse_index(ia, fs)
    IN  [indexed |-> indexPathExists(ia, fs), listed |-> listed,
         held |-> [i \in 1..Len(listed) |-> get_data(listed[i], fs)]]

\* Analysis starts only with the index of the mode in place and without
\* scratchOnly
AnalysisOnlyWhenDue ==
    \A k \in Started("analyze") :
       Events[k].indexed /\ ~handler.flags.scratchOnly

\* No scrape with analyzeOnly
NoScratchWhenAnalyzeOnly ==
    handler.flags.analyzeOnly => Started("scratch") = {}

\* With deleteCacheOnly the k-th mode deletes its own cache and starts
\* nothing else; a handle that returns has done so for every mode
OnlyDeletionWhenDeleteCacheOnly ==
    (handler.flags.deleteCacheOnly /\ ~handler.flags.dropDatabase) =>
       /\ Len(Events) <= Len(handler.indexTypes)
       /\ \A k \in 1..Len(Events) :
             /\ Events[k].op = "delete"
             /\ Events[k].indexType = handler.indexTypes[k]
       /\ handler.pc = "returned" => Len(Events) = Len(handler.indexTypes)

\* With dropDatabase the reset is all that is started, and a handle that
\* returns has reset the database
OnlyResetWhenDropDatabase ==
    handler.flags.dropDatabase =>
       /\ \A k \in 1..Len(Events) : Events[k].op = "reset"
       /\ handler.pc = "returned" =>
             Events = <<[op |-> "reset"]>> /\ handler.database = "reset"

\* The six URLs of the requests differ
DistinctUrls ==
    \A j, k \in DOMAIN handler.urls :
       j # k => handler.urls[j] # handler.urls[k]

\* The scrape of a mode and its store come before the analysis of that
\* mode, and the analysis reads what that scrape stored (one file per
\* URL: with two equal URLs the later result set is what both hold)
ScratchAndStoreBeforeAnalysis ==
    \A t \in IndexTypes : \A k \in StartedFor("analyze", t) :
       \A j \in StartedFor("scratch", t) :
          /\ j < k
          /\ \E m \in StartedFor("store", t) : j < m /\ m < k
          /\ handler.raised = "AttributeError"
          /\ DistinctUrls => ResultsOf(issueAnalyzer) = Events[j].results

\* A step with dropDatabase leaves the disk alone; a deletion leaves the
\* cache of the other index type as it was
DiskKept ==
    /\ handler.flags.dropDatabase => files' = files /\ dirs' = dirs
    /\ (handler.flags.deleteCacheOnly /\ ~handler.flags.dropDatabase) =>
          /\ issueAnalyzer'.cacheDirectory = issueAnalyzer.cacheDirectory
          /\ handler.pc = "mode" =>
                \A t \in IndexTypes \ {issueAnalyzer.indexType} :
                   CacheOf(t, FileSystem(files', dirs')) = CacheOf(t, Disk)

\* C40: in IssueAnalyzer.handle, analysis of a mode is started only when
\* the cache index of the mode exists at that moment and scratchOnly is not
\* set; no scrape is started with analyzeOnly; with deleteCacheOnly the only
\* thing started for a mode is the deletion of the cache of that mode, the
\* cache of the other mode staying as it was; with dropDatabase the database
\* is reset and nothing is scraped, analysed or deleted; and when a mode is
\* scraped and analysed, the scrape and its store come before the analysis
\* reads the cache, which then holds the results of that scrape.
C40_HandleFollowsFlags ==
    /\ [](/\ AnalysisOnlyWhenDue
          /\ NoScratchWhenAnalyzeOnly
          /\ OnlyDeletionWhenDeleteCacheOnly
          /\ OnlyResetWhenDropDatabase
          /\ ScratchAndStoreBeforeAnalysis)
    /\ [][DiskKept]_vars

\* C40 witness: of two modes to run, the first, whose cache an earlier run
\* had left, is scraped, stored and then analysed, and the analysis has
\* read the results of that scrape.
C40_Witness ==
    \E t \in IndexTypes :
       /\ DistinctUrls
       /\ StartedFor("analyze", t) # {}
       /\ \E j \in StartedFor("scratch", t) :
             /\ Events[j].indexed
             /\ ResultsOf(issueAnalyzer) = Events[j].results
       /\ Len(handler.indexTypes) > 1

\* C40 witness: with deleteCacheOnly the caches of both modes, left by an
\* earlier run, have been deleted one after the other.
C40_WitnessDeleteCacheOnly ==
    /\ handler.flags.deleteCacheOnly
    /\ handler.pc = "returned"
    /\ Len(Events) > 1
    /\ \A k \in 1..Len(Events) : Events[k].op = "delete" /\ Events[k].indexed

\* C40 witness: with dropDatabase and every other flag set, handle has
\* returned after the reset, the caches still on the disk.
C40_WitnessDropDatabase ==
    /\ handler.flags.dropDatabase
    /\ handler.flags.deleteCacheOnly
    /\ handler.pc = "returned"
    /\ handler.database = "reset"
    /\ \A t \in IndexTypes : CacheOf(t, Disk).indexed

\* C40 witness: with analyzeOnly a mode without a cache is passed over
\* and the next mode, whose cache exists, is analysed.
C40_WitnessAnalyzeOnly ==
    /\ handler.flags.analyzeOnly
    /\ handler.i > 1
    /\ Started("analyze") # {}
====
